---- MODULE Spec2Model ----
(***************************************************************************)
(* A model of multiarch.py (Cloudsmith Docker Sleuth): the rate-limited    *)
(* fetcher make_request, the aggregators fetch_tag_data / get_digest_data  *)
(* / fetch_untagged_data, the batch deleter batch_delete_packages and the  *)
(* tagged analysis get_image_analysis.                                     *)
(*                                                                         *)
(* Strings are sequences of tokens ("sha256:" \o <<"d1">>), so prefixing,  *)
(* startswith and replace are computed and not assumed.  Durations are in  *)
(* tenths of a second.  A Python optional is <<>> (None) or <<v>>.         *)
(***************************************************************************)
EXTENDS Integers, Sequences, FiniteSets, TLC

VARIABLES
    store,    \* what the registry and the package API hold (fixed per run)
    menu,     \* the responses the server may give besides the definite one
    rq,       \* per thread: the make_request call it is executing
    tw,       \* per thread: the aggregator task (fetch_tag_data, fetch_untagged_data) it runs
    bd,       \* the running call of batch_delete_packages
    ia,       \* the running call of get_image_analysis
    ui,       \* the running call of get_untagged_images
    mn        \* the run of main

vars == <<store, menu, rq, tw, bd, ia, ui, mn>>

----------------------------------------------------------------------------
\* Program constants

max_retries == 5
batch_size == 10
aggregator_workers == 10
image_workers == 5
RemainingThreshold == 3
MaxProactiveWait == 300
HalfSecond == 5
NegativeWaitFallback == 10
PacingSleep == 11

\* Bounds of the model

MaxEntries == 2
MaxSlugs == 23
MaxRetrySlugs == 2
MaxTags == 2
MaxPkgs == 2
MaxImages == 2
MaxDigestLen == 3
MaxDupSlugs == 3
\* one task more than an aggregator pool has workers
MaxTasks == aggregator_workers + 1
MaxPoolImages == 6

\* thread 0 is the calling thread, 1..MaxTasks are the tasks submitted to a
\* pool (the DELETE tasks of a batch are 1..batch_size at most)
Threads == 0..MaxTasks

----------------------------------------------------------------------------
\* Python values

None == <<>>
Some(v) == <<v>>

ResNone == [kind |-> "none", val |-> <<>>]
ResTrue == [kind |-> "true", val |-> <<>>]
ResJson(doc) == [kind |-> "json", val |-> <<doc>>]

\* str.startswith('sha256:')
StartsWithSha(s) == Len(s) > 0 /\ s[1] = "sha256:"

\* f"sha256:{s}"
PrefixSha(s) == <<"sha256:">> \o s

\* str.replace("sha256:", ""): every occurrence is removed
\* (removal of one leading prefix only)
StripSha_Leading(s) == IF s # <<>> /\ s[1] = "sha256:" THEN Tail(s) ELSE s

\* digest.replace("sha256:", "")
StripSha(s) == SelectSeq(s, LAMBDA tok : tok # "sha256:")

\* str.lower() on the architecture strings of the model
Lower(s) ==
    CASE s = "Unknown" -> "unknown"
      [] s = "UNKNOWN" -> "unknown"
      [] s = "AMD64" -> "amd64"
      [] OTHER -> s

RECURSIVE SumSeq(_)
SumSeq(s) == IF s = <<>> THEN 0 ELSE Head(s) + SumSeq(Tail(s))

RECURSIVE Pow2(_)
Pow2(n) == IF n = 0 THEN 1 ELSE 2 * Pow2(n - 1)

Range(s) == {s[i] : i \in DOMAIN s}

----------------------------------------------------------------------------
\* URLs and the server

ManifestUrl(ref) == [api |-> "manifests", key |-> ref]
PackagesUrl(version) == [api |-> "packages", key |-> version]
DeleteUrl(slug) == [api |-> "delete", key |-> slug]
TagsUrl(img) == [api |-> "tags", key |-> img]
NameQueryUrl(img) == [api |-> "named", key |-> img]
CatalogUrl == [api |-> "catalog", key |-> <<>>]

\* The document the server holds for a URL: <<>> when it has none (404).
Content(url) ==
    CASE url.api = "manifests" ->
            IF url.key \in DOMAIN store.manifests THEN store.manifests[url.key] ELSE <<>>
      [] url.api = "packages" ->
            IF url.key \in DOMAIN store.pkgs THEN store.pkgs[url.key] ELSE <<>>
      [] url.api = "tags" ->
            IF url.key \in DOMAIN store.tags THEN store.tags[url.key] ELSE <<>>
      [] url.api = "named" ->
            IF url.key \in DOMAIN store.named THEN store.named[url.key] ELSE <<>>
      [] url.api = "catalog" -> store.catalog
      [] OTHER ->
            IF url.key \in store.deletable THEN <<"deleted">> ELSE <<>>

NotFound == [code |-> 404, wire |-> "none", retryAfter |-> <<>>, resetIn |-> <<>>, remaining |-> <<>>]
ServerError == [code |-> 500, wire |-> "none", retryAfter |-> <<>>, resetIn |-> <<>>, remaining |-> <<>>]
NetworkError == [code |-> 0, wire |-> "none", retryAfter |-> <<>>, resetIn |-> <<>>, remaining |-> <<>>]
TooMany(retryAfter, resetIn) ==
    [code |-> 429, wire |-> "none", retryAfter |-> retryAfter, resetIn |-> resetIn, remaining |-> <<>>]
Ok(wire, remaining, resetIn) ==
    [code |-> 200, wire |-> wire, retryAfter |-> <<>>, resetIn |-> resetIn, remaining |-> remaining]

PlainOk == Ok("json", <<>>, <<>>)

\* The responses the server may give to one HTTP attempt at url.
Responses(url) ==
    (IF Content(url) # <<>> THEN menu.ok ELSE {NotFound}) \cup menu.transient

----------------------------------------------------------------------------
\* make_request

IdleRequest ==
    [st |-> "idle", url |-> DeleteUrl(<<>>), method |-> "GET", attempt |-> 0,
     result |-> ResNone, hist |-> <<>>, sleeps |-> <<>>]

NewRequest(url, method) ==
    [st |-> "try", url |-> url, method |-> method, attempt |-> 0,
     result |-> ResNone, hist |-> <<>>, sleeps |-> <<>>]

Return(q, res) == [q EXCEPT !.st = "ret", !.result = res]

\* (a sleep until the reset time, capped at MaxProactiveWait)
ProactiveSleep_Capped(resp) ==
    IF resp.remaining # <<>> /\ resp.remaining[1] < RemainingThreshold
       /\ resp.resetIn # <<>> /\ resp.resetIn[1] > 0
    THEN <<IF resp.resetIn[1] < MaxProactiveWait THEN resp.resetIn[1] + HalfSecond
           ELSE MaxProactiveWait>>
    ELSE <<>>

\* lines 78-85: the sleeps a successful response causes
ProactiveSleep(resp) ==
    IF resp.remaining # <<>> /\ resp.remaining[1] < RemainingThreshold
       /\ resp.resetIn # <<>>
       /\ resp.resetIn[1] > 0 /\ resp.resetIn[1] < MaxProactiveWait
    THEN <<resp.resetIn[1] + HalfSecond>>
    ELSE <<>>

\* (the wait without the replacement of a negative value)
WaitTime_Unclamped(resp, attempt) ==
    IF resp.retryAfter # <<>> THEN resp.retryAfter[1]
    ELSE IF resp.resetIn # <<>> THEN resp.resetIn[1]
    ELSE Pow2(attempt) * 10

\* lines 94-105: the wait of a 429 at the 0-based attempt
WaitTime(resp, attempt) ==
    LET w == IF resp.retryAfter # <<>> THEN resp.retryAfter[1]
             ELSE IF resp.resetIn # <<>> THEN resp.resetIn[1]
             ELSE Pow2(attempt) * 10
    IN  IF w < 0 THEN NegativeWaitFallback ELSE w

\* line 73: whether the for-loop runs another iteration after a 429 at attempt
RetryAgain_Three(attempt) == attempt + 1 < 3
RetryAgain(attempt) == attempt + 1 < max_retries

\* lines 87-90: what a 200 makes the call return
OnSuccess(q, resp, doc) ==
    IF q.method = "DELETE" THEN ResTrue
    ELSE IF resp.wire = "json" THEN ResJson(doc) ELSE ResNone

\* lines 91-117: what a failed attempt does to the call
OnFailure_RetryAny(q, resp) ==
    LET q2 == [q EXCEPT !.sleeps = Append(@, WaitTime(resp, q.attempt) + HalfSecond),
                        !.attempt = @ + 1]
    IN  IF RetryAgain(q.attempt) THEN q2 ELSE Return(q2, ResNone)
OnFailure(q, resp) ==
    IF resp.code = 429
    THEN LET q2 == [q EXCEPT !.sleeps = Append(@, WaitTime(resp, q.attempt) + HalfSecond),
                             !.attempt = @ + 1]
         IN  IF RetryAgain(q.attempt) THEN q2 ELSE Return(q2, ResNone)
    ELSE Return(q, ResNone)

\* One iteration of the loop of lines 73-117 on the response resp.
Handle(q, resp, doc) ==
    LET q1 == [q EXCEPT !.hist = Append(@, resp)]
    IN  IF resp.code = 200
        THEN Return([q1 EXCEPT !.sleeps = @ \o ProactiveSleep(resp)], OnSuccess(q1, resp, doc))
        ELSE OnFailure(q1, resp)

Attempt(t) ==
    /\ rq[t].st = "try"
    /\ \E resp \in Responses(rq[t].url) :
          rq' = [rq EXCEPT ![t] = Handle(@, resp,
                      IF Content(rq[t].url) # <<>> THEN Content(rq[t].url)[1] ELSE <<>>)]
    /\ UNCHANGED <<store, menu, tw, bd, ia, ui, mn>>

----------------------------------------------------------------------------
\* The documents of the model

D1 == <<"sha256:", "d1">>
D2 == <<"sha256:", "d2">>

\* One entry of a manifest list's `manifests` array.
Entry(hasDigest, digest, hasArch, arch) ==
    [hasDigest |-> hasDigest, digest |-> digest, hasArch |-> hasArch, arch |-> arch,
     os |-> "linux"]

EntryPool ==
    { Entry(TRUE, D1, TRUE, "amd64"),
      Entry(TRUE, D2, TRUE, "arm64"),
      Entry(TRUE, D2, TRUE, "unknown"),
      Entry(TRUE, D1, TRUE, "Unknown"),
      Entry(TRUE, D1, FALSE, ""),
      Entry(FALSE, <<>>, TRUE, "amd64"),
      Entry(TRUE, <<>>, TRUE, "arm64") }

\* A manifest list ('manifests' in manifest_json) and a single-platform
\* manifest (a config and layers, each with a digest, and no `manifests`).
\* `architecture` is a top-level architecture key, when the document has one.
IndexDoc(entries) ==
    [shape |-> "index", manifests |-> entries, config |-> <<>>, layers |-> <<>>,
     architecture |-> <<>>]
ImageDoc(config, layers, architecture) ==
    [shape |-> "image", manifests |-> <<>>, config |-> config, layers |-> layers,
     architecture |-> architecture]

\* A package record of the metadata API.
Pkg(slug, status, downloads, version, type) ==
    [slug |-> slug, status_str |-> status, downloads |-> downloads, version |-> version,
     type_display |-> type]

V1 == <<"v1">>
V2 == <<"v2">>
Img == <<"img">>
SlugOf(tag) == <<"slug-">> \o tag

SeqsUpTo(S, n) == UNION {[1..k -> S] : k \in 0..n}

----------------------------------------------------------------------------
\* Rows and groups

Row(tag, type, platform, status, downloads, digest, is_child, slug) ==
    [kind |-> "row", tag |-> tag, type |-> type, platform |-> platform, status |-> status,
     downloads |-> downloads, digest |-> digest, is_child |-> is_child, slug |-> slug,
     action |-> <<>>]

\* the string "SECTION" that fetch_untagged_data appends to a detailed group
Section ==
    [kind |-> "SECTION", tag |-> <<>>, type |-> "", platform |-> <<>>, status |-> <<>>,
     downloads |-> 0, digest |-> <<>>, is_child |-> FALSE, slug |-> <<>>, action |-> <<>>]

Unknown == <<"unknown">>
Untagged == <<"(untagged)">>
NoPkg == Pkg(<<>>, "", 0, <<>>, "")

\* m.get('digest') is falsy: no key, null or the empty string
EntryDigest(m) == IF m.hasDigest THEN m.digest ELSE <<>>
\* p.get('architecture', 'unknown')
EntryArch(m) == IF m.hasArch THEN m.arch ELSE "unknown"
\* f"{os_name}/{arch}"
EntryPlat(m) == <<m.os, "/", EntryArch(m)>>

Child(digest, platform) == [digest |-> digest, platform |-> platform]

\* find_key_recursive(doc, 'digest') on the documents of the model, in document order
FindDigests(doc) ==
    LET kept == SelectSeq(doc.manifests, LAMBDA m : m.hasDigest)
    IN  [i \in 1..Len(kept) |-> kept[i].digest] \o doc.config \o doc.layers

\* find_key_recursive(doc, 'architecture')
FindArchs(doc) ==
    LET kept == SelectSeq(doc.manifests, LAMBDA m : m.hasArch)
    IN  [i \in 1..Len(kept) |-> kept[i].arch] \o doc.architecture

\* the orders list(set(..)) may give to the elements of S
Orders(S) == {o \in [1..Cardinality(S) -> S] : Range(o) = S}

\* lines 249-250: which entries of a manifest list fetch_tag_data keeps
TagKeeps_AnyDigest(m) == Lower(EntryArch(m)) # "unknown"
TagKeeps(m) == EntryDigest(m) # <<>> /\ Lower(EntryArch(m)) # "unknown"

\* lines 242-250: the children of a manifest list
TagChildren(doc) ==
    LET kept == SelectSeq(doc.manifests, TagKeeps)
    IN  [i \in 1..Len(kept) |-> Child(EntryDigest(kept[i]), EntryPlat(kept[i]))]

\* lines 331-332: which entries fetch_untagged_data keeps
UntaggedKeeps(m) == Lower(EntryArch(m)) # "unknown"

\* m['digest'] raises KeyError on an entry it keeps that has no digest key
UntaggedRaises(doc) ==
    \E i \in DOMAIN doc.manifests : UntaggedKeeps(doc.manifests[i]) /\ ~doc.manifests[i].hasDigest

\* lines 324-332: child_digests
UntaggedChildren(doc) ==
    LET kept == SelectSeq(doc.manifests, UntaggedKeeps)
    IN  [i \in 1..Len(kept) |-> Child(kept[i].digest, EntryPlat(kept[i]))]

\* sorted() on the status strings of the model
StatusRank(st) ==
    CASE st = "Completed" -> 1 [] st = "Failed" -> 2 [] st = "In Progress" -> 3
      [] st = "Quarantined" -> 4 [] st = "Unknown" -> 5 [] OTHER -> 6

\* sorted(S) for a set of status strings
SortStatuses(S) ==
    CHOOSE o \in Orders(S) :
        \A i, j \in DOMAIN o : i < j => StatusRank(o[i]) <= StatusRank(o[j])

\* lines 185-199: the platform get_digest_data reads from the child's manifest
PlatformFromManifest(res, digest, platform) ==
    IF res.kind # "json" THEN platform
    ELSE LET doc == res.val[1]
             archs == FindArchs(doc)
             hits == {i \in DOMAIN doc.manifests :
                         doc.manifests[i].hasDigest /\ doc.manifests[i].digest = digest}
         IN  IF doc.shape = "index" /\ hits # {}
             THEN LET m == doc.manifests[CHOOSE i \in hits : \A j \in hits : i <= j]
                  IN  <<m.os, "/", IF m.hasArch THEN m.arch ELSE "">>
             ELSE IF archs # <<>> THEN <<archs[1]>> ELSE platform

\* lines 206-218: the download count get_digest_data reports
DigestDownloads(res) ==
    IF res.kind = "json" /\ res.val[1] # <<>> THEN res.val[1][1].downloads ELSE 0

\* lines 206-212
DigestStatus(res) ==
    IF res.kind = "json" /\ res.val[1] # <<>>
    THEN SortStatuses({res.val[1][i].status_str : i \in DOMAIN res.val[1]})
    ELSE <<"Unknown">>

\* lines 220-228
DigestRow(res, digest, tag, platform) ==
    Row(tag, "image", platform, DigestStatus(res), DigestDownloads(res), digest, TRUE, <<>>)

\* sorted() on the platform strings of the model (all "linux/<arch>", or "unknown")
PlatRank(p) ==
    LET a == p[Len(p)] IN
    CASE a = "Unknown" -> 1 [] a = "amd64" -> 2 [] a = "arm64" -> 3 [] a = "unknown" -> 4
      [] OTHER -> 5

\* sorted(S) for a set of platform strings
SortPlats(S) ==
    CHOOSE o \in Orders(S) : \A i, j \in DOMAIN o : i < j => PlatRank(o[i]) <= PlatRank(o[j])

RECURSIVE Join(_)
\* " ".join(parts)
Join(parts) ==
    IF parts = <<>> THEN <<>>
    ELSE IF Len(parts) = 1 THEN parts[1]
    ELSE parts[1] \o <<" ">> \o Join(Tail(parts))

----------------------------------------------------------------------------
\* The aggregator tasks: fetch_tag_data, fetch_untagged_data, get_digest_data

IdleWorker ==
    [fn |-> "idle", pc |-> "idle", tag |-> <<>>, pkg |-> NoPkg, detailed |-> FALSE,
     digest |-> <<>>, manifest_json |-> <<>>, children |-> <<>>, i |-> 0,
     platform |-> <<>>, children_data |-> <<>>, total_downloads |-> 0, rows |-> <<>>,
     calls |-> <<>>, nulls |-> <<>>]

NewTagWorker(tag, detailed) ==
    [IdleWorker EXCEPT !.fn = "tag", !.pc = "start", !.tag = tag, !.detailed = detailed]

NewUntaggedWorker(pkg, detailed) ==
    [IdleWorker EXCEPT !.fn = "untagged", !.pc = "start", !.tag = Untagged, !.pkg = pkg,
                       !.detailed = detailed]

\* calls lists the call sites at which the task has called make_request, and
\* nulls those whose call returned None: the task of thread t has just read
\* the result of its last call.
Nulls(t, w) ==
    IF rq[t].st = "ret" /\ rq[t].result.kind = "none"
    THEN Append(w.nulls, w.calls[Len(w.calls)]) ELSE w.nulls

\* The task of thread t calls make_request(url) at the call site `site`.
Issue(t, w, site, url) ==
    /\ tw' = [tw EXCEPT ![t] = [w EXCEPT !.pc = site[1], !.calls = Append(@, site),
                                         !.nulls = Nulls(t, w)]]
    /\ rq' = [rq EXCEPT ![t] = NewRequest(url, "GET")]

\* The task of thread t returns (pc "done") or raises (pc "raised").
Finish(t, w, pc) ==
    /\ tw' = [tw EXCEPT ![t] = [w EXCEPT !.pc = pc, !.nulls = Nulls(t, w)]]
    /\ rq' = [rq EXCEPT ![t] = IdleRequest]

\* lines 181-183 and 202-204: get_digest_data's first request for child i
StartChild(t, w, i) ==
    LET c == w.children[i]
        w2 == [w EXCEPT !.i = i, !.platform = c.platform]
    IN  IF c.platform = Unknown
        THEN Issue(t, w2, <<"child_manifest", i>>, ManifestUrl(c.digest))
        ELSE Issue(t, w2, <<"child_pkg", i>>, PackagesUrl(StripSha(c.digest)))

\* lines 233-234
\* A task is queued from its submission (pc "start") until a worker of the
\* pool takes it, and runs from then until it returns or raises.
Queued(w) == w.pc = "start"
Running(w) == w.pc \notin {"idle", "start", "done", "raised"}

\* (a pool that starts every task at once)
PoolAdmits_Unbounded(t) == \A u \in 1..(t - 1) : ~Queued(tw[u])

\* lines 383 and 445, ThreadPoolExecutor(max_workers=10): the workers take
\* the tasks in the order of their submission, and a task is taken only
\* while fewer than 10 are running
PoolAdmits(t) ==
    /\ \A u \in 1..(t - 1) : ~Queued(tw[u])
    /\ Cardinality({u \in Threads : Running(tw[u])}) < aggregator_workers

\* lines 233-234: a worker takes the task, which issues its manifest request
TagStart(t) ==
    /\ tw[t].fn = "tag" /\ tw[t].pc = "start"
    /\ PoolAdmits(t)
    /\ Issue(t, tw[t], <<"manifest", 0>>, ManifestUrl(tw[t].tag))
    /\ UNCHANGED <<store, menu, bd, ia, ui, mn>>

\* lines 236-237: the manifest fetch returned nothing
OnNullManifest_Retry(t, w) == Issue(t, w, <<"manifest", 0>>, ManifestUrl(w.tag))
OnNullManifest(t, w) == Finish(t, [w EXCEPT !.rows = <<>>], "done")

\* lines 257-258: no child was found
OnNoChildren(t, w) == Finish(t, [w EXCEPT !.rows = <<>>], "done")

\* lines 236-265
TagAfterManifest(t) ==
    /\ tw[t].fn = "tag" /\ tw[t].pc = "manifest" /\ rq[t].st = "ret"
    /\ LET res == rq[t].result IN
       IF res.kind # "json" THEN OnNullManifest(t, tw[t])
       ELSE \E children \in
                 IF res.val[1].shape = "index" THEN {TagChildren(res.val[1])}
                 ELSE {[i \in DOMAIN o |-> Child(o[i], Unknown)] :
                          o \in Orders(Range(FindDigests(res.val[1])))} :
               LET w == [tw[t] EXCEPT !.manifest_json = res.val, !.children = children]
               IN  IF children = <<>> THEN OnNoChildren(t, w) ELSE StartChild(t, w, 1)
    /\ UNCHANGED <<store, menu, bd, ia, ui, mn>>

\* lines 185-204
DigestAfterManifest(t) ==
    /\ tw[t].pc = "child_manifest" /\ rq[t].st = "ret"
    /\ LET w == tw[t]
           c == w.children[w.i]
       IN  Issue(t, [w EXCEPT !.platform = PlatformFromManifest(rq[t].result, c.digest, @)],
                 <<"child_pkg", w.i>>, PackagesUrl(StripSha(c.digest)))
    /\ UNCHANGED <<store, menu, bd, ia, ui, mn>>

\* line 267: the running sum of the children's downloads
AddDownloads_Last(total, dl) == dl
AddDownloads(total, dl) == total + dl

\* lines 206-228 of get_digest_data, and its caller's loop: lines 264-271 of
\* fetch_tag_data, lines 351-357 of fetch_untagged_data
DigestAfterPackages(t) ==
    /\ tw[t].pc = "child_pkg" /\ rq[t].st = "ret"
    /\ LET w == tw[t]
           c == w.children[w.i]
           row == DigestRow(rq[t].result, c.digest, w.tag, w.platform)
           last == w.i = Len(w.children)
       IN  IF w.fn = "tag"
           THEN LET w2 == [w EXCEPT !.children_data = Append(@, row),
                                    !.total_downloads = AddDownloads(@, row.downloads)]
                IN  IF last THEN Issue(t, w2, <<"parent_pkg", 0>>, PackagesUrl(w.tag))
                    ELSE StartChild(t, w2, w.i + 1)
           ELSE IF last THEN Finish(t, [w EXCEPT !.rows = @ \o <<row, Section>>], "done")
                ELSE StartChild(t, [w EXCEPT !.rows = Append(@, row)], w.i + 1)
    /\ UNCHANGED <<store, menu, bd, ia, ui, mn>>

\* lines 277-284: status, slug and digest of the tag's own package
ParentOf(res) ==
    IF res.kind = "json" /\ res.val[1] # <<>>
    THEN LET p == res.val[1][1] IN
         [status |-> <<p.status_str>>, slug |-> p.slug,
          digest |-> IF p.version # <<>> /\ ~StartsWithSha(p.version)
                     THEN PrefixSha(p.version) ELSE p.version]
    ELSE [status |-> <<"Unknown">>, slug |-> <<>>, digest |-> <<>>]

\* lines 286-303: the rows fetch_tag_data returns
TagRows(w, parent) ==
    <<Row(w.tag, "manifest/list", <<"multi">>, parent.status, w.total_downloads,
          parent.digest, FALSE, <<parent.slug>>)>>
       \o (IF w.detailed THEN w.children_data ELSE <<>>)

\* lines 273-303
TagAfterParent(t) ==
    /\ tw[t].pc = "parent_pkg" /\ rq[t].st = "ret"
    /\ Finish(t, [tw[t] EXCEPT !.rows = TagRows(tw[t], ParentOf(rq[t].result))], "done")
    /\ UNCHANGED <<store, menu, bd, ia, ui, mn>>

\* lines 306-308
UntaggedDigest(pkg) ==
    IF pkg.version # <<>> /\ ~StartsWithSha(pkg.version) THEN PrefixSha(pkg.version)
    ELSE pkg.version

\* lines 306-316
UntaggedStart(t) ==
    /\ tw[t].fn = "untagged" /\ tw[t].pc = "start"
    /\ PoolAdmits(t)
    /\ Issue(t, [tw[t] EXCEPT !.digest = UntaggedDigest(tw[t].pkg)],
             <<"manifest", 0>>, ManifestUrl(UntaggedDigest(tw[t].pkg)))
    /\ UNCHANGED <<store, menu, bd, ia, ui, mn>>

\* (a summary that leaves out the entries of unknown architecture)
PlatformSummary_KnownOnly(res) ==
    IF res.kind # "json" THEN Unknown
    ELSE IF res.val[1].shape = "index"
         THEN Join(SortPlats({EntryPlat(res.val[1].manifests[i]) :
                                 i \in {j \in DOMAIN res.val[1].manifests :
                                           UntaggedKeeps(res.val[1].manifests[j])}}))
         ELSE Unknown

\* lines 319-336: the parent's platform summary
PlatformSummary(res) ==
    IF res.kind # "json" THEN Unknown
    ELSE IF res.val[1].shape = "index"
         THEN Join(SortPlats({EntryPlat(res.val[1].manifests[i]) :
                                 i \in DOMAIN res.val[1].manifests}))
         ELSE Unknown

\* lines 338-348
UntaggedParent(w, res) ==
    Row(Untagged, "manifest/list", PlatformSummary(res), <<w.pkg.status_str>>,
        w.pkg.downloads, w.digest, FALSE, <<w.pkg.slug>>)

\* lines 318-357
UntaggedAfterManifest(t) ==
    /\ tw[t].fn = "untagged" /\ tw[t].pc = "manifest" /\ rq[t].st = "ret"
    /\ LET w == tw[t]
           res == rq[t].result
           isIndex == res.kind = "json" /\ res.val[1].shape = "index"
           children == IF isIndex THEN UntaggedChildren(res.val[1]) ELSE <<>>
           w2 == [w EXCEPT !.manifest_json = res.val, !.children = children,
                           !.rows = <<UntaggedParent(w, res)>>]
       IN  IF isIndex /\ UntaggedRaises(res.val[1])
           THEN Finish(t, [w EXCEPT !.manifest_json = res.val], "raised")
           ELSE IF ~w.detailed THEN Finish(t, w2, "done")
           ELSE IF children = <<>> THEN Finish(t, [w2 EXCEPT !.rows = Append(@, Section)], "done")
           ELSE StartChild(t, w2, 1)
    /\ UNCHANGED <<store, menu, bd, ia, ui, mn>>

TagTask(t) ==
    \/ TagStart(t)
    \/ TagAfterManifest(t)
    \/ DigestAfterManifest(t)
    \/ DigestAfterPackages(t)
    \/ TagAfterParent(t)

UntaggedTask(t) ==
    \/ UntaggedStart(t)
    \/ UntaggedAfterManifest(t)
    \/ DigestAfterPackages(t)

Aggregate(t) ==
    \/ TagStart(t)
    \/ TagAfterManifest(t)
    \/ DigestAfterManifest(t)
    \/ DigestAfterPackages(t)
    \/ TagAfterParent(t)
    \/ UntaggedStart(t)
    \/ UntaggedAfterManifest(t)

----------------------------------------------------------------------------
\* batch_delete_packages

IdleDelete ==
    [pc |-> "idle", slugs |-> <<>>, i |-> 0, deleted |-> {}, failed |-> {},
     naps |-> <<>>, batches |-> <<>>]

\* lines 146-152; `if not slugs: return deleted, failed`
NewDelete(slugs) ==
    [IdleDelete EXCEPT !.pc = IF slugs = <<>> THEN "done" ELSE "submit", !.slugs = slugs]

\* line 158: slugs[i:i + batch_size], i counted from 0
BatchAt(slugs, i) ==
    SubSeq(slugs, i + 1, IF i + batch_size < Len(slugs) THEN i + batch_size ELSE Len(slugs))

\* lines 158-160: the batch's DELETE tasks are submitted to a pool of batch_size
\* workers, so each starts at once
SubmitBatch ==
    /\ bd.pc = "submit"
    /\ LET batch == BatchAt(bd.slugs, bd.i) IN
       /\ rq' = [t \in Threads |->
                    IF t \in 1..Len(batch) THEN NewRequest(DeleteUrl(batch[t]), "DELETE")
                    ELSE rq[t]]
       /\ bd' = [bd EXCEPT !.pc = "batch", !.batches = Append(@, batch)]
    /\ UNCHANGED <<store, menu, tw, ia, ui, mn>>

\* line 170: whether a pacing sleep follows the batch that starts at i
MoreBatches_OrEqual(i, n) == i + batch_size <= n
MoreBatches(i, n) == i + batch_size < n

\* line 157: the next value of range(0, len(slugs), batch_size), or the end
\* of the loop and the return of line 173
NextIteration(b) ==
    [b EXCEPT !.i = @ + batch_size,
              !.pc = IF b.i + batch_size < Len(b.slugs) THEN "submit" ELSE "done"]

\* lines 161-168 and the end of the `with` block: every future of the batch
\* has completed
BatchDone_Any(batch) == \E t \in 1..Len(batch) : rq[t].st = "ret"
BatchDone(batch) == \A t \in 1..Len(batch) : rq[t].st = "ret"

\* lines 161-170: the batch has completed and the pool is shut down; each
\* slug is recorded by its result
JoinBatch ==
    /\ bd.pc = "batch"
    /\ LET batch == BatchAt(bd.slugs, bd.i)
           ok == {t \in 1..Len(batch) : rq[t].result.kind # "none"}
           b2 == [bd EXCEPT !.deleted = @ \cup {batch[t] : t \in ok},
                            !.failed = @ \cup {batch[t] : t \in (1..Len(batch)) \ ok}]
       IN  /\ BatchDone(batch)
           /\ bd' = IF MoreBatches(bd.i, Len(bd.slugs)) THEN [b2 EXCEPT !.pc = "sleep"]
                    ELSE NextIteration(b2)
           /\ rq' = [t \in Threads |-> IF t \in 1..Len(batch) THEN IdleRequest ELSE rq[t]]
    /\ UNCHANGED <<store, menu, tw, ia, ui, mn>>

\* line 171, then the next iteration of the loop of line 157
Pace ==
    /\ bd.pc = "sleep"
    /\ bd' = NextIteration([bd EXCEPT !.naps = Append(@, PacingSleep)])
    /\ UNCHANGED <<store, menu, rq, tw, ia, ui, mn>>

DeleteStep == SubmitBatch \/ JoinBatch \/ Pace

----------------------------------------------------------------------------
\* get_image_analysis

IdleAnalysis ==
    [pc |-> "idle", img |-> Img, delete_all |-> FALSE, delete_tag |-> <<>>,
     detailed |-> FALSE,
     tags |-> <<>>, groups |-> <<>>, packages_to_delete |-> <<>>, errors |-> <<>>,
     returned |-> "nothing"]

\* delete_tag is <<>> (None) or <<tag>>
NewAnalysis(delete_all, delete_tag, detailed) ==
    [IdleAnalysis EXCEPT !.pc = "start", !.delete_all = delete_all,
                         !.delete_tag = delete_tag, !.detailed = detailed]

\* sorted() on the tag strings of the model
TagRank(tag) == CASE tag = <<"v1">> -> 1 [] tag = <<"v2">> -> 2 [] OTHER -> 3

\* line 438: sorted(list(set(flat_tags)))
SortTags(S) ==
    CHOOSE o \in Orders(S) : \A i, j \in DOMAIN o : i < j => TagRank(o[i]) <= TagRank(o[j])

\* lines 425-426
ImageStart ==
    /\ ia.pc = "start"
    /\ rq' = [rq EXCEPT ![0] = NewRequest(TagsUrl(ia.img), "GET")]
    /\ ia' = [ia EXCEPT !.pc = "tags"]
    /\ UNCHANGED <<store, menu, tw, bd, ui, mn>>

\* lines 428-446: no tag ends the call with None; otherwise one task per tag
\* is submitted to a pool of 10 workers
ImageAfterTags ==
    /\ ia.pc = "tags" /\ rq[0].st = "ret"
    /\ LET tags == IF rq[0].result.kind = "json" THEN SortTags(Range(rq[0].result.val[1]))
                   ELSE <<>>
       IN  /\ ia' = [ia EXCEPT !.tags = tags,
                               !.pc = IF tags = <<>> THEN "done" ELSE "pool",
                               !.returned = IF tags = <<>> THEN "None" ELSE "nothing"]
           /\ tw' = [t \in Threads |->
                        IF t \in 1..Len(tags) THEN NewTagWorker(tags[t], ia.detailed)
                        ELSE tw[t]]
    /\ rq' = [rq EXCEPT ![0] = IdleRequest]
    /\ UNCHANGED <<store, menu, bd, ui, mn>>

\* lines 448-458: results[tag] is set for every task that returned, and the
\* groups are the results in the order of tags; for a task that raised the
\* handler is `pass`, and ia.errors, what the function logs or prints about
\* a task, stays as it is
KeepsGroup(w) == w.pc = "done"

GroupsOf(tags) ==
    LET kept == SelectSeq([k \in DOMAIN tags |-> k], LAMBDA k : KeepsGroup(tw[k]))
    IN  [g \in DOMAIN kept |-> tw[kept[g]].rows]

\* lines 467-471
ShouldDelete_AnyTag(delete_all, delete_tag, parent) == delete_all \/ delete_tag # <<>>
ShouldDelete(delete_all, delete_tag, parent) ==
    delete_all \/ (delete_tag # <<>> /\ parent.tag = delete_tag[1])

\* `parent.get('slug')` is truthy
HasSlug(parent) == parent.slug # <<>> /\ parent.slug[1] # <<>>

\* lines 461-474
PackagesToDelete(groups, delete_all, delete_tag) ==
    LET chosen == SelectSeq(groups, LAMBDA g :
                     /\ g # <<>>
                     /\ g[1].type = "manifest/list"
                     /\ ShouldDelete(delete_all, delete_tag, g[1])
                     /\ HasSlug(g[1]))
    IN  [k \in DOMAIN chosen |-> chosen[k][1].slug[1]]

\* lines 485-501: the action of a group's rows
WithAction(group, deleted, failed) ==
    IF group = <<>> THEN group
    ELSE LET slug == IF group[1].slug = <<>> THEN <<"None">> ELSE group[1].slug[1]
             action == IF slug \in deleted THEN <<"Deleted">>
                       ELSE IF slug \in failed THEN <<"Failed">> ELSE <<>>
         IN  IF action = <<>> THEN group
             ELSE [r \in DOMAIN group |->
                      IF group[r].kind = "row" THEN [group[r] EXCEPT !.action = action]
                      ELSE group[r]]

\* (a pool left while some of its tasks still run)
PoolShutDown_Early(n) == \E t \in 1..n : tw[t].pc \in {"done", "raised"}

\* line 445: the `with` block of the pool ends when its n tasks have ended
PoolShutDown(n) == \A t \in 1..n : tw[t].pc \in {"done", "raised"}

\* lines 448-482: the pool has shut down; the groups and the slugs to delete
\* are built, and batch_delete_packages is called when there is a slug
ImageJoin ==
    /\ ia.pc = "pool"
    /\ PoolShutDown(Len(ia.tags))
    /\ LET groups == GroupsOf(ia.tags)
           slugs == PackagesToDelete(groups, ia.delete_all, ia.delete_tag)
       IN  /\ ia' = [ia EXCEPT !.groups = groups, !.packages_to_delete = slugs,
                               !.pc = IF slugs = <<>> THEN "done" ELSE "delete",
                               !.returned = IF slugs = <<>> THEN "groups" ELSE "nothing"]
           /\ bd' = IF slugs = <<>> THEN bd ELSE NewDelete(slugs)
    /\ UNCHANGED <<store, menu, rq, tw, ui, mn>>

\* lines 482-503: batch_delete_packages has returned
ImageAfterDelete ==
    /\ ia.pc = "delete" /\ bd.pc = "done"
    /\ ia' = [ia EXCEPT !.groups = [g \in DOMAIN @ |-> WithAction(@[g], bd.deleted, bd.failed)],
                        !.pc = "done", !.returned = "groups"]
    /\ UNCHANGED <<store, menu, rq, tw, bd, ui, mn>>

ImageStep == ImageStart \/ ImageAfterTags \/ ImageJoin \/ ImageAfterDelete

----------------------------------------------------------------------------
\* get_untagged_images

\* A record of the answer to ?query=name:<img>: the package and its `tags`
\* key, which is "absent", "null", "empty" (no version tag) or "version".
Listed(pkg, tags) == [pkg |-> pkg, tags |-> tags]

IdleUntagged ==
    [pc |-> "idle", img |-> Img, delete |-> FALSE, detailed |-> FALSE,
     untagged_pkgs |-> <<>>, collected |-> {}, packages_to_delete |-> <<>>,
     groups |-> <<>>, errors |-> <<>>, returned |-> "nothing"]

NewUntagged(img, delete, detailed) ==
    [IdleUntagged EXCEPT !.pc = "start", !.img = img, !.delete = delete,
                         !.detailed = detailed]

\* lines 360-364
UntaggedImagesStart ==
    /\ ui.pc = "start"
    /\ rq' = [rq EXCEPT ![0] = NewRequest(NameQueryUrl(ui.img), "GET")]
    /\ ui' = [ui EXCEPT !.pc = "packages"]
    /\ UNCHANGED <<store, menu, tw, bd, ia, mn>>

\* line 369: the test on the package type
IsManifestList_Any(p) == TRUE
IsManifestList(p) == p.pkg.type_display = "manifest/list"

\* lines 370-371: p.get('tags', {}) and `not tags.get('version')`
HasNoVersionTag(p) == p.tags \in {"absent", "empty"}

\* line 371: tags.get raises AttributeError when the `tags` key holds null
NameQueryRaises(packages) ==
    \E i \in DOMAIN packages : IsManifestList(packages[i]) /\ packages[i].tags = "null"

\* lines 366-372
UntaggedPkgsOf(packages) ==
    LET kept == SelectSeq(packages, LAMBDA p : IsManifestList(p) /\ HasNoVersionTag(p))
    IN  [i \in DOMAIN kept |-> kept[i].pkg]

\* lines 364-385: no untagged package ends the call with None; otherwise one
\* fetch_untagged_data task per package is submitted to a pool of 10 workers
UntaggedImagesAfterPackages ==
    /\ ui.pc = "packages" /\ rq[0].st = "ret"
    /\ LET packages == IF rq[0].result.kind = "json" THEN rq[0].result.val[1] ELSE <<>>
           pkgs == UntaggedPkgsOf(packages)
       IN  IF NameQueryRaises(packages)
           THEN /\ ui' = [ui EXCEPT !.pc = "done", !.returned = "raised"]
                /\ tw' = tw
           ELSE /\ ui' = [ui EXCEPT !.untagged_pkgs = pkgs,
                                    !.pc = IF pkgs = <<>> THEN "done" ELSE "pool",
                                    !.returned = IF pkgs = <<>> THEN "None" ELSE "nothing"]
                /\ tw' = [t \in Threads |->
                             IF t \in 1..Len(pkgs) THEN NewUntaggedWorker(pkgs[t], ui.detailed)
                             ELSE tw[t]]
    /\ rq' = [rq EXCEPT ![0] = IdleRequest]
    /\ UNCHANGED <<store, menu, bd, ia, mn>>

\* lines 386-392: as_completed hands over a finished task; its slug is
\* appended when it returned, and nothing is done when it raised (`pass`:
\* ui.errors, what the function logs or prints about a task, stays as it is)
UntaggedCollect(t) ==
    /\ ui.pc = "pool"
    /\ t \in (1..Len(ui.untagged_pkgs)) \ ui.collected
    /\ tw[t].pc \in {"done", "raised"}
    /\ ui' = [ui EXCEPT !.collected = @ \cup {t},
                        !.packages_to_delete =
                            IF tw[t].pc = "done" THEN Append(@, tw[t].pkg.slug) ELSE @]
    /\ UNCHANGED <<store, menu, rq, tw, bd, ia, mn>>

\* (an action that reports a failed deletion as done)
ActionStr_FailedAsDeleted(delete, slug, deleted, failed) ==
    IF delete /\ slug \in deleted \cup failed THEN "Deleted" ELSE ""

\* lines 407-411: the action of a group
ActionStr(delete, slug, deleted, failed) ==
    IF delete /\ slug \in deleted THEN "Deleted"
    ELSE IF delete /\ slug \in failed THEN "Failed" ELSE ""

\* lines 413-417: every dict row gets the action, and loses its slug
Publish(row, action) ==
    IF row.kind = "row" THEN [row EXCEPT !.action = <<action>>, !.slug = <<>>] ELSE row

\* line 403: the indices of results_map
InResultsMap(i) == tw[i].pc = "done"

\* lines 400-422: the groups, in the order of untagged_pkgs
UntaggedGroups(n, delete, deleted, failed) ==
    LET kept == SelectSeq([i \in 1..n |-> i], InResultsMap)
    IN  [g \in DOMAIN kept |->
            LET w == tw[kept[g]]
                action == ActionStr(delete, w.pkg.slug, deleted, failed)
            IN  [r \in DOMAIN w.rows |-> Publish(w.rows[r], action)]]

\* line 397: whether batch_delete_packages is called
DeletesUntagged(delete, slugs) == delete /\ slugs # <<>>

\* lines 394-422 when nothing is deleted, lines 394-398 otherwise
UntaggedImagesJoin ==
    /\ ui.pc = "pool"
    /\ ui.collected = 1..Len(ui.untagged_pkgs)
    /\ IF DeletesUntagged(ui.delete, ui.packages_to_delete)
       THEN /\ bd' = NewDelete(ui.packages_to_delete)
            /\ ui' = [ui EXCEPT !.pc = "delete"]
       ELSE /\ bd' = bd
            /\ ui' = [ui EXCEPT !.pc = "done", !.returned = "groups",
                         !.groups = UntaggedGroups(Len(ui.untagged_pkgs), ui.delete, {}, {})]
    /\ UNCHANGED <<store, menu, rq, tw, ia, mn>>

\* lines 398-422: batch_delete_packages has returned
UntaggedImagesAfterDelete ==
    /\ ui.pc = "delete" /\ bd.pc = "done"
    /\ ui' = [ui EXCEPT !.pc = "done", !.returned = "groups",
                 !.groups = UntaggedGroups(Len(ui.untagged_pkgs), ui.delete,
                                           bd.deleted, bd.failed)]
    /\ UNCHANGED <<store, menu, rq, tw, bd, ia, mn>>

UntaggedImagesStep ==
    \/ UntaggedImagesStart
    \/ UntaggedImagesAfterPackages
    \/ UntaggedImagesJoin
    \/ UntaggedImagesAfterDelete

----------------------------------------------------------------------------
\* process_image as main's workers run it: each call of an image worker as
\* one step, against a server that answers every request at the first
\* attempt (menu.transient is empty).  The results are those of the step-wise
\* tasks above: see ImageRefinesSummary and UntaggedRefinesSummary.

\* make_request(url) when the first attempt is answered
Fetch(url) == IF Content(url) # <<>> THEN ResJson(Content(url)[1]) ELSE ResNone

\* get_digest_data
GetDigestData(digest, tag, platform) ==
    LET plat == IF platform = Unknown
                THEN PlatformFromManifest(Fetch(ManifestUrl(digest)), digest, platform)
                ELSE platform
    IN  DigestRow(Fetch(PackagesUrl(StripSha(digest))), digest, tag, plat)

\* lines 251-255; the single-platform manifests of the model hold at most one
\* distinct digest, so list(set(..)) has one order
FallbackChildren(doc) ==
    LET o == CHOOSE o \in Orders(Range(FindDigests(doc))) : TRUE
    IN  [i \in DOMAIN o |-> Child(o[i], Unknown)]

\* fetch_tag_data
FetchTagData(tag, detailed) ==
    LET res == Fetch(ManifestUrl(tag)) IN
    IF res.kind # "json" THEN <<>>
    ELSE LET doc == res.val[1]
             children == IF doc.shape = "index" THEN TagChildren(doc)
                         ELSE FallbackChildren(doc)
             data == [i \in DOMAIN children |->
                         GetDigestData(children[i].digest, tag, children[i].platform)]
             w == [IdleWorker EXCEPT
                      !.tag = tag, !.detailed = detailed, !.children_data = data,
                      !.total_downloads = SumSeq([i \in DOMAIN data |-> data[i].downloads])]
         IN  IF children = <<>> THEN <<>>
             ELSE TagRows(w, ParentOf(Fetch(PackagesUrl(tag))))

\* what a call of process_image gives its caller
ReturnsNone == [kind |-> "None", groups |-> <<>>]
ReturnsGroups(groups) == [kind |-> "groups", groups |-> groups]
Raises == [kind |-> "raised", groups |-> <<>>]

\* the slugs batch_delete_packages reports as deleted
DeletedOf(slugs) == {sl \in Range(slugs) : Content(DeleteUrl(sl)) # <<>>}

\* get_image_analysis
GetImageAnalysis(img, delete_all, delete_tag, detailed) ==
    LET res == Fetch(TagsUrl(img))
        tags == IF res.kind = "json" THEN SortTags(Range(res.val[1])) ELSE <<>>
        groups == [k \in DOMAIN tags |-> FetchTagData(tags[k], detailed)]
        slugs == PackagesToDelete(groups, delete_all, delete_tag)
    IN  IF tags = <<>> THEN ReturnsNone
        ELSE ReturnsGroups([g \in DOMAIN groups |->
                 WithAction(groups[g], DeletedOf(slugs), Range(slugs) \ DeletedOf(slugs))])

\* fetch_untagged_data: its rows, or <<>> when it raises
FetchUntaggedData(pkg, detailed) ==
    LET digest == UntaggedDigest(pkg)
        res == Fetch(ManifestUrl(digest))
        isIndex == res.kind = "json" /\ res.val[1].shape = "index"
        children == IF isIndex THEN UntaggedChildren(res.val[1]) ELSE <<>>
        parent == UntaggedParent([pkg |-> pkg, digest |-> digest], res)
    IN  IF isIndex /\ UntaggedRaises(res.val[1]) THEN <<>>
        ELSE IF ~detailed THEN <<parent>>
        ELSE <<parent>>
                \o [i \in DOMAIN children |->
                       GetDigestData(children[i].digest, Untagged, children[i].platform)]
                \o <<Section>>

\* get_untagged_images
GetUntaggedImages(img, delete, detailed) ==
    LET res == Fetch(NameQueryUrl(img))
        packages == IF res.kind = "json" THEN res.val[1] ELSE <<>>
        pkgs == UntaggedPkgsOf(packages)
        rows == [i \in DOMAIN pkgs |-> FetchUntaggedData(pkgs[i], detailed)]
        kept == SelectSeq([i \in DOMAIN pkgs |-> i], LAMBDA i : rows[i] # <<>>)
        slugs == [k \in DOMAIN kept |-> pkgs[kept[k]].slug]
        deleted == IF DeletesUntagged(delete, slugs) THEN DeletedOf(slugs) ELSE {}
        failed == IF DeletesUntagged(delete, slugs) THEN Range(slugs) \ deleted ELSE {}
    IN  IF NameQueryRaises(packages) THEN Raises
        ELSE IF pkgs = <<>> THEN ReturnsNone
        ELSE ReturnsGroups([g \in DOMAIN kept |->
                 [r \in DOMAIN rows[kept[g]] |->
                     Publish(rows[kept[g]][r],
                             ActionStr(delete, pkgs[kept[g]].slug, deleted, failed))]])

\* The step-wise get_image_analysis returns what GetImageAnalysis gives.
ImageRefinesSummary ==
    ia.pc = "done" =>
        LET r == GetImageAnalysis(ia.img, ia.delete_all, ia.delete_tag, ia.detailed)
        IN  /\ ia.returned = "None" <=> r.kind = "None"
            /\ ia.returned = "groups" <=> r.kind = "groups"
            /\ ia.returned = "groups" => ia.groups = r.groups

\* The step-wise get_untagged_images returns what GetUntaggedImages gives.
UntaggedRefinesSummary ==
    ui.pc = "done" =>
        LET r == GetUntaggedImages(ui.img, ui.delete, ui.detailed)
        IN  /\ ui.returned = "None" <=> r.kind = "None"
            /\ ui.returned = "raised" <=> r.kind = "raised"
            /\ ui.returned = "groups" <=> r.kind = "groups"
            /\ ui.returned = "groups" => ui.groups = r.groups

----------------------------------------------------------------------------
\* main

A == <<"a">>
B == <<"b">>

\* sorting on the image names of the model
ImgRank(img) == CASE img = A -> 1 [] img = B -> 2 [] OTHER -> 3

\* the parsed command line
Args(img, untagged, untagged_delete, delete_all, delete_tag, detailed, output) ==
    [img |-> img, untagged |-> untagged, untagged_delete |-> untagged_delete,
     delete_all |-> delete_all, delete_tag |-> delete_tag, detailed |-> detailed,
     output |-> output]

NoArgs == Args(<<>>, FALSE, FALSE, FALSE, <<>>, FALSE, "table")

\* what main has printed: kind is "none", "catalog_failed", "nothing_found",
\* "empty_json", "silent", "tables", "json", "csv" or "cancelled"
NoOutput == [kind |-> "none", tables |-> <<>>, json |-> <<>>, csv |-> <<>>]

\* an image task that is queued, and one that a worker of the pool is running
Pending == [kind |-> "pending", groups |-> <<>>]
InFlight == [kind |-> "running", groups |-> <<>>]

IdleMain ==
    [pc |-> "idle", args |-> NoArgs, images_to_scan |-> <<>>, finished |-> <<>>,
     collected |-> {}, collected_results |-> <<>>, errors |-> <<>>, out |-> NoOutput,
     cancelled |-> {}]

NewMain(args) == [IdleMain EXCEPT !.pc = "start", !.args = args]

\* lines 505-509
ProcessImageResult(img, args) ==
    IF args.untagged \/ args.untagged_delete
    THEN GetUntaggedImages(img, args.untagged_delete, args.detailed)
    ELSE GetImageAnalysis(img, args.delete_all, args.delete_tag, args.detailed)

\* the pool of lines 666-671 has a task per image
StartPool(m, images) ==
    [m EXCEPT !.pc = "pool", !.images_to_scan = images,
              !.finished = [k \in DOMAIN images |-> Pending]]

\* lines 629-637
MainStart ==
    /\ mn.pc = "start"
    /\ IF mn.args.img # <<>>
       THEN /\ mn' = StartPool(mn, <<mn.args.img[1]>>)
            /\ rq' = rq
       ELSE /\ mn' = [mn EXCEPT !.pc = "catalog"]
            /\ rq' = [rq EXCEPT ![0] = NewRequest(CatalogUrl, "GET")]
    /\ UNCHANGED <<store, menu, tw, bd, ia, ui>>

\* lines 639-649: the catalog's repositories, or exit status 1
MainAfterCatalog ==
    /\ mn.pc = "catalog" /\ rq[0].st = "ret"
    /\ LET res == rq[0].result IN
       IF res.kind = "json" /\ res.val[1].hasRepositories
       THEN mn' = StartPool(mn, res.val[1].repositories)
       ELSE mn' = [mn EXCEPT !.pc = "exit1",
                             !.out.kind = IF mn.args.output = "table"
                                          THEN "catalog_failed" ELSE "none"]
    /\ rq' = [rq EXCEPT ![0] = IdleRequest]
    /\ UNCHANGED <<store, menu, tw, bd, ia, ui>>

\* the pool exists from line 666 until the process exits
PoolAlive == mn.pc \in {"pool", "interrupted", "handler"}

\* line 666, ThreadPoolExecutor(max_workers=5): the workers take the tasks
\* in the order of their submission, and a task is taken only while fewer
\* than 5 are running
ImagePoolAdmits(k) ==
    /\ \A j \in 1..(k - 1) : mn.finished[j] # Pending
    /\ Cardinality({j \in DOMAIN mn.finished : mn.finished[j] = InFlight}) < image_workers

\* lines 668-671: a worker of the pool takes the task of the k-th image,
\* unless the task was cancelled
StartImageTask(k) ==
    /\ PoolAlive
    /\ k \in DOMAIN mn.images_to_scan
    /\ mn.finished[k] = Pending /\ k \notin mn.cancelled
    /\ ImagePoolAdmits(k)
    /\ mn' = [mn EXCEPT !.finished[k] = InFlight]
    /\ UNCHANGED <<store, menu, rq, tw, bd, ia, ui>>

\* lines 668-671: process_image returns or raises in its worker
ProcessImage(k) ==
    /\ PoolAlive
    /\ k \in DOMAIN mn.images_to_scan
    /\ mn.finished[k] = InFlight
    /\ mn' = [mn EXCEPT !.finished[k] = ProcessImageResult(mn.images_to_scan[k], mn.args)]
    /\ UNCHANGED <<store, menu, rq, tw, bd, ia, ui>>

\* line 677: `if groups`
Truthy(r) == r.kind = "groups" /\ r.groups # <<>>

\* lines 673-685: as_completed hands over a finished task; its groups are
\* collected when there are any, and its exception is logged (and printed)
MainCollect(k) ==
    /\ mn.pc = "pool"
    /\ k \in DOMAIN mn.images_to_scan /\ k \notin mn.collected
    /\ mn.finished[k] \notin {Pending, InFlight}
    /\ LET r == mn.finished[k]
           img == mn.images_to_scan[k]
       IN  mn' = [mn EXCEPT
                    !.collected = @ \cup {k},
                    !.errors = IF r.kind = "raised" THEN Append(@, img) ELSE @,
                    !.collected_results =
                        IF Truthy(r) THEN Append(@, [img |-> img, groups |-> r.groups])
                        ELSE @]
    /\ UNCHANGED <<store, menu, rq, tw, bd, ia, ui>>

\* line 696: list.sort(key=image name) is stable
SortByImage_Unsorted(cr) == cr
SortByImage(cr) ==
    LET perm == CHOOSE f \in [DOMAIN cr -> DOMAIN cr] :
                    /\ \A i, j \in DOMAIN cr : f[i] = f[j] => i = j
                    /\ \A i, j \in DOMAIN cr :
                          i < j => \/ ImgRank(cr[f[i]].img) < ImgRank(cr[f[j]].img)
                                   \/ /\ cr[f[i]].img = cr[f[j]].img
                                      /\ f[i] < f[j]
    IN  [i \in DOMAIN cr |-> cr[perm[i]]]

\* a row of a rendered table, or a section line
Cells(tag, type, platform, status, downloads, digest, action) ==
    [cell |-> "row", tag |-> tag, type |-> type, platform |-> platform, status |-> status,
     downloads |-> downloads, digest |-> digest, action |-> action]

SectionLine == Cells(<<>>, "", <<>>, <<>>, 0, <<>>, <<>>)

\* row.get('action', '')
ActionOf(row) == IF row.action = <<>> THEN "" ELSE row.action[1]

\* lines 530-554: the parent row of a group
RenderParent(parent, is_untagged, has_action) ==
    IF is_untagged
    THEN Cells(parent.tag, parent.type, parent.platform, parent.status, parent.downloads,
               parent.digest, IF has_action THEN <<ActionOf(parent)>> ELSE <<>>)
    ELSE Cells(parent.tag, "manifest/list", <<"multi">>, parent.status, parent.downloads,
               parent.digest, IF has_action THEN <<ActionOf(parent)>> ELSE <<>>)

\* lines 557-573: a row after the parent
RenderChild(row, has_action) ==
    IF row.kind = "SECTION" THEN [SectionLine EXCEPT !.cell = "section"]
    ELSE Cells(row.tag, row.type, row.platform, row.status, row.downloads, row.digest,
               IF has_action THEN <<ActionOf(row)>> ELSE <<>>)

\* lines 524-573: an empty group is skipped
RenderGroup(group, is_untagged, has_action) ==
    IF group = <<>> THEN <<>>
    ELSE [r \in DOMAIN group |->
             IF r = 1 THEN RenderParent(group[1], is_untagged, has_action)
             ELSE RenderChild(group[r], has_action)]

RECURSIVE RenderGroups(_, _, _)
RenderGroups(groups, is_untagged, has_action) ==
    IF groups = <<>> THEN <<>>
    ELSE RenderGroup(Head(groups), is_untagged, has_action)
            \o RenderGroups(Tail(groups), is_untagged, has_action)

\* render_table
RenderTable(image_name, groups, is_untagged, has_action) ==
    [image |-> image_name, rows |-> RenderGroups(groups, is_untagged, has_action)]

\* lines 708-714
Tables(cr, args) ==
    [i \in DOMAIN cr |->
        RenderTable(cr[i].img, cr[i].groups, args.untagged \/ args.untagged_delete,
                    args.untagged_delete \/ args.delete_all \/ args.delete_tag # <<>>)]

\* lines 717-719: all_results[img_name] = groups, a later entry of the same
\* name replacing an earlier one
AllResults(cr) ==
    [img \in {cr[i].img : i \in DOMAIN cr} |->
        cr[CHOOSE i \in DOMAIN cr :
              cr[i].img = img /\ \A j \in DOMAIN cr : cr[j].img = img => j <= i].groups]

\* line 726
CsvHeader ==
    <<"Image", "Tag", "Type", "Platform", "Status", "Downloads", "Digest", "Action">>

\* lines 728-741: `group` is a list (a group), never "SECTION" and without
\* .get: the first group of the first image raises AttributeError
CsvRaises(cr) == \E i \in DOMAIN cr : cr[i].groups # <<>>

\* lines 696-746: every task is collected and the pool shut down; the results
\* are sorted and printed
MainOutput ==
    /\ mn.pc = "pool"
    /\ mn.collected = DOMAIN mn.images_to_scan
    /\ LET cr == SortByImage(mn.collected_results)
           output == mn.args.output
       IN  mn' = [mn EXCEPT
                    !.collected_results = cr,
                    !.pc = IF cr # <<>> /\ output = "csv" /\ CsvRaises(cr)
                           THEN "raised" ELSE "done",
                    !.out =
                       IF cr = <<>>
                       THEN [NoOutput EXCEPT !.kind =
                                CASE output = "table" -> "nothing_found"
                                  [] output = "json" -> "empty_json"
                                  [] OTHER -> "silent"]
                       ELSE CASE output = "table" ->
                                    [NoOutput EXCEPT !.kind = "tables",
                                                     !.tables = Tables(cr, mn.args)]
                              [] output = "json" ->
                                    [NoOutput EXCEPT !.kind = "json", !.json = AllResults(cr)]
                              [] OTHER ->
                                    IF CsvRaises(cr) THEN NoOutput
                                    ELSE [NoOutput EXCEPT !.kind = "csv",
                                                          !.csv = <<CsvHeader>>]]
    /\ UNCHANGED <<store, menu, rq, tw, bd, ia, ui>>

MainStep == MainStart \/ MainAfterCatalog \/ MainOutput

\* KeyboardInterrupt is raised in the main thread: inside the try block of
\* lines 667-688 it is caught at line 690, elsewhere it goes to line 751
MainInterrupt ==
    /\ mn.pc \in {"start", "catalog", "pool"}
    /\ mn' = [mn EXCEPT !.pc = IF mn.pc = "pool" THEN "interrupted" ELSE "handler"]
    /\ UNCHANGED <<store, menu, rq, tw, bd, ia, ui>>

\* (a shutdown that cancels nothing)
CancelFutures_None(m) == {}

\* line 692, cancel_futures=True: every task still queued is cancelled
CancelFutures(m) == {k \in DOMAIN m.finished : m.finished[k] = Pending}

\* lines 690-693: executor.shutdown(wait=False, cancel_futures=True) returns
\* without joining the workers, and the exception goes on to line 751
MainShutdown ==
    /\ mn.pc = "interrupted"
    /\ mn' = [mn EXCEPT !.pc = "handler", !.cancelled = CancelFutures(mn)]
    /\ UNCHANGED <<store, menu, rq, tw, bd, ia, ui>>

\* lines 751-754: the message is printed and os._exit(0) ends the process,
\* its workers included
MainExit ==
    /\ mn.pc = "handler"
    /\ mn' = [mn EXCEPT !.pc = "exited", !.out.kind = "cancelled"]
    /\ UNCHANGED <<store, menu, rq, tw, bd, ia, ui>>

InterruptStep == MainInterrupt \/ MainShutdown \/ MainExit

----------------------------------------------------------------------------
\* make_request alone: one call against every response sequence

RequestStore ==
    [manifests |-> (V1 :> <<IndexDoc(<<Entry(TRUE, D1, TRUE, "amd64")>>)>>),
     pkgs |-> (V1 :> << <<Pkg(SlugOf(V1), "Completed", 5, <<"d0">>, "manifest/list")>> >>),
     deletable |-> {SlugOf(V1)}, tags |-> <<>>, named |-> <<>>, catalog |-> <<>>]

RequestMenu ==
    [ok |-> {Ok(w, h[1], h[2]) :
                w \in {"json", "garbage"},
                h \in {<< <<>>, <<>> >>, << <<2>>, <<100>> >>, << <<2>>, <<300>> >>,
                       << <<3>>, <<100>> >>, << <<2>>, <<-10>> >>, << <<2>>, <<>> >>}},
     transient |-> {ServerError, NetworkError, NotFound,
                    TooMany(<<>>, <<>>), TooMany(<<20>>, <<>>),
                    TooMany(<<>>, <<40>>), TooMany(<<>>, <<-10>>)}]

RequestCalls ==
    { <<ManifestUrl(V1), "GET">>, <<ManifestUrl(V2), "GET">>, <<PackagesUrl(V1), "GET">>,
      <<DeleteUrl(SlugOf(V1)), "DELETE">>, <<DeleteUrl(SlugOf(V2)), "DELETE">> }

InitRequest ==
    /\ store = RequestStore
    /\ menu = RequestMenu
    /\ \E c \in RequestCalls :
          rq = [t \in Threads |-> IF t = 1 THEN NewRequest(c[1], c[2]) ELSE IdleRequest]
    /\ tw = [t \in Threads |-> IdleWorker]
    /\ bd = IdleDelete
    /\ ia = IdleAnalysis
    /\ ui = IdleUntagged
    /\ mn = IdleMain

NextRequest == \E t \in Threads : Attempt(t)

SpecRequest == InitRequest /\ [][NextRequest]_vars

----------------------------------------------------------------------------
\* One aggregator task against every manifest of the model

DU == <<"sha256:", "u1">>

ManifestDocs ==
    {IndexDoc(es) : es \in SeqsUpTo(EntryPool, MaxEntries)}
       \cup {ImageDoc(<<D1>>, <<D2>>, <<>>), ImageDoc(<<D1>>, <<D1>>, <<"amd64">>),
             ImageDoc(<<>>, <<>>, <<>>)}

ChildPkg(status, downloads, version) ==
    Pkg(<<"slug-">> \o version, status, downloads, version, "image")

ParentPkg(tag) == Pkg(SlugOf(tag), "Completed", 0, <<"i-">> \o tag, "manifest/list")

\* what the package API answers to ?query=version:<key>: <<>> is no answer,
\* << <<>> >> an empty list
PkgVariants ==
    { (<<"d1">> :> << <<ChildPkg("Completed", 5, <<"d1">>)>> >>)
         @@ (<<"d2">> :> << <<ChildPkg("Completed", 3, <<"d2">>)>> >>)
         @@ (V1 :> << <<ParentPkg(V1)>> >>) @@ (V2 :> << <<ParentPkg(V2)>> >>),
      (<<"d1">> :> << <<ChildPkg("Quarantined", 5, <<"d1">>),
                        ChildPkg("Completed", 7, <<"d1">>)>> >>)
         @@ (<<"d2">> :> <<>>)
         @@ (V1 :> << <<>> >>) @@ (V2 :> << <<ParentPkg(V2)>> >>),
      (<<"d1">> :> << <<>> >>)
         @@ (<<"d2">> :> << <<ChildPkg("In Progress", 3, <<"d2">>)>> >>)
         @@ (V1 :> <<>>) @@ (V2 :> <<>>) }

\* The manifests of the children: D1 is a single-platform image, D2 is absent.
ChildManifests == (D1 :> <<ImageDoc(<<>>, <<>>, <<"amd64">>)>>) @@ (D2 :> <<>>)

UntaggedPkgs ==
    { Pkg(<<"slug-u1">>, "Completed", 4, <<"u1">>, "manifest/list"),
      Pkg(<<"slug-u1">>, "Quarantined", 0, DU, "manifest/list") }

AggTasks(detailed) ==
    {NewTagWorker(V1, detailed)} \cup {NewUntaggedWorker(p, detailed) : p \in UntaggedPkgs}

PlainMenu == [ok |-> {PlainOk}, transient |-> {ServerError}]
RetryMenu == [ok |-> {PlainOk}, transient |-> {ServerError, NetworkError, TooMany(<<>>, <<>>)}]
SteadyMenu == [ok |-> {PlainOk}, transient |-> {}]

InitAgg ==
    /\ menu = PlainMenu
    /\ \E m \in {<<>>} \cup {<<d>> : d \in ManifestDocs}, pv \in PkgVariants :
          store = [manifests |-> (V1 :> m) @@ (DU :> m) @@ ChildManifests,
                   pkgs |-> pv, deletable |-> {}, tags |-> <<>>, named |-> <<>>, catalog |-> <<>>]
    /\ rq = [t \in Threads |-> IdleRequest]
    /\ \E detailed \in BOOLEAN :
          \E w \in AggTasks(detailed) :
             tw = [t \in Threads |-> IF t = 1 THEN w ELSE IdleWorker]
    /\ bd = IdleDelete
    /\ ia = IdleAnalysis
    /\ ui = IdleUntagged
    /\ mn = IdleMain

NextAgg == \E t \in Threads : Attempt(t) \/ Aggregate(t)

SpecAgg == InitAgg /\ [][NextAgg]_vars

----------------------------------------------------------------------------
\* batch_delete_packages on lists of 1..MaxSlugs slugs

Numerals ==
    <<"1", "2", "3", "4", "5", "6", "7", "8", "9", "10", "11", "12", "13", "14", "15",
      "16", "17", "18", "19", "20", "21", "22", "23", "24", "25", "26", "27", "28">>

SlugN(k) == <<"pkg-", Numerals[k]>>
SlugList(n) == [k \in 1..n |-> SlugN(k)]

\* the slugs whose DELETE the API refuses (404)
Refused == {{}, {SlugN(1)}, {SlugN(2), SlugN(11), SlugN(21)}}

InitDelete ==
    /\ menu = SteadyMenu
    /\ \E n \in 1..MaxSlugs, bad \in Refused :
          /\ store = [manifests |-> ChildManifests, pkgs |-> <<>>,
                      deletable |-> Range(SlugList(n)) \ bad, tags |-> <<>>, named |-> <<>>, catalog |-> <<>>]
          /\ bd = NewDelete(SlugList(n))
    /\ rq = [t \in Threads |-> IdleRequest]
    /\ tw = [t \in Threads |-> IdleWorker]
    /\ ia = IdleAnalysis
    /\ ui = IdleUntagged
    /\ mn = IdleMain

NextDelete == (\E t \in Threads : Attempt(t)) \/ DeleteStep

SpecDelete == InitDelete /\ [][NextDelete]_vars

----------------------------------------------------------------------------
\* Every caller of make_request, with retries: the three aggregator entry
\* points and batch_delete_packages on up to MaxRetrySlugs slugs

CallerManifests ==
    { <<>>, <<IndexDoc(<<Entry(TRUE, D1, TRUE, "amd64"), Entry(TRUE, D2, TRUE, "arm64")>>)>>,
      <<ImageDoc(<<D1>>, <<>>, <<>>)>> }

InitCallers ==
    /\ menu = RetryMenu
    /\ rq = [t \in Threads |-> IdleRequest]
    /\ \/ /\ \E m \in CallerManifests :
                store = [manifests |-> (V1 :> m) @@ (DU :> m) @@ ChildManifests,
                         pkgs |-> CHOOSE pv \in PkgVariants : pv[V1] # <<>> /\ pv[V1][1] # <<>>,
                         deletable |-> {}, tags |-> <<>>, named |-> <<>>, catalog |-> <<>>]
          /\ \E w \in AggTasks(TRUE) : tw = [t \in Threads |-> IF t = 1 THEN w ELSE IdleWorker]
          /\ bd = IdleDelete
       \/ /\ \E n \in 1..MaxRetrySlugs, bad \in Refused :
                /\ store = [manifests |-> ChildManifests, pkgs |-> <<>>,
                            deletable |-> Range(SlugList(n)) \ bad, tags |-> <<>>, named |-> <<>>, catalog |-> <<>>]
                /\ bd = NewDelete(SlugList(n))
          /\ tw = [t \in Threads |-> IdleWorker]
    /\ ia = IdleAnalysis
    /\ ui = IdleUntagged
    /\ mn = IdleMain

\* (at most batch_size slugs: one batch, and no pacing sleep)
NextCallers == (\E t \in Threads : Attempt(t) \/ Aggregate(t)) \/ SubmitBatch \/ JoinBatch

SpecCallers == InitCallers /\ [][NextCallers]_vars

----------------------------------------------------------------------------
\* get_image_analysis on an image of up to two tags

TagLists == SeqsUpTo({V1, V2}, MaxTags)

ImageManifests ==
    { <<>>,
      <<IndexDoc(<<Entry(TRUE, D1, TRUE, "amd64"), Entry(TRUE, D2, TRUE, "arm64")>>)>>,
      <<IndexDoc(<<Entry(TRUE, D2, TRUE, "unknown")>>)>>,
      <<ImageDoc(<<D1>>, <<>>, <<>>)>> }

InitImage ==
    /\ menu = SteadyMenu
    /\ \E m1 \in ImageManifests, m2 \in ImageManifests, pv \in PkgVariants,
          raw \in {<<>>} \cup {<<l>> : l \in TagLists}, bad \in {{}, {SlugOf(V1)}} :
          store = [manifests |-> (V1 :> m1) @@ (V2 :> m2) @@ ChildManifests,
                   pkgs |-> pv, deletable |-> {SlugOf(V1), SlugOf(V2)} \ bad, tags |-> (Img :> raw), named |-> <<>>, catalog |-> <<>>]
    /\ rq = [t \in Threads |-> IdleRequest]
    /\ tw = [t \in Threads |-> IdleWorker]
    /\ bd = IdleDelete
    /\ \E delete_all \in BOOLEAN, delete_tag \in {<<>>, <<V1>>, <<<<"v9">>>>},
          detailed \in BOOLEAN :
          ia = NewAnalysis(delete_all, delete_tag, detailed)
    /\ ui = IdleUntagged
    /\ mn = IdleMain

\* (at most batch_size slugs: one batch, and no pacing sleep)
NextImage ==
    (\E t \in Threads : Attempt(t) \/ TagTask(t)) \/ ImageStep \/ SubmitBatch \/ JoinBatch

SpecImage == InitImage /\ [][NextImage]_vars

----------------------------------------------------------------------------
\* get_untagged_images on a name query of up to MaxPkgs packages

U1 == <<"u1">>
U2 == <<"sha256:", "u2">>
PU1 == Pkg(<<"slug-u1">>, "Completed", 4, U1, "manifest/list")
PU2 == Pkg(<<"slug-u2">>, "Quarantined", 0, U2, "manifest/list")
PImage == Pkg(<<"slug-i1">>, "Completed", 1, <<"i1">>, "image")

ListedPool ==
    { Listed(PU1, "empty"), Listed(PU2, "absent"), Listed(PU1, "version"),
      Listed(PImage, "empty"), Listed(PU2, "null") }

UntaggedManifests ==
    { <<>>,
      <<IndexDoc(<<Entry(TRUE, D1, TRUE, "amd64"), Entry(TRUE, D2, TRUE, "arm64")>>)>>,
      <<IndexDoc(<<Entry(TRUE, D2, TRUE, "unknown"), Entry(TRUE, D1, TRUE, "amd64")>>)>>,
      <<IndexDoc(<<Entry(FALSE, <<>>, TRUE, "amd64")>>)>>,
      <<ImageDoc(<<D1>>, <<>>, <<>>)>> }

InitUntagged ==
    /\ menu = SteadyMenu
    /\ \E m1 \in UntaggedManifests, m2 \in UntaggedManifests,
          named \in {<<>>} \cup {<<l>> : l \in SeqsUpTo(ListedPool, MaxPkgs)},
          bad \in {{}, {PU1.slug}} :
          store = [manifests |-> (PrefixSha(U1) :> m1) @@ (U2 :> m2) @@ ChildManifests,
                   pkgs |-> CHOOSE pv \in PkgVariants : pv[<<"d2">>] = <<>>,
                   deletable |-> {PU1.slug, PU2.slug} \ bad,
                   tags |-> <<>>, named |-> (Img :> named), catalog |-> <<>>]
    /\ rq = [t \in Threads |-> IdleRequest]
    /\ tw = [t \in Threads |-> IdleWorker]
    /\ bd = IdleDelete
    /\ ia = IdleAnalysis
    /\ \E delete \in BOOLEAN, detailed \in BOOLEAN : ui = NewUntagged(Img, delete, detailed)
    /\ mn = IdleMain

\* (at most batch_size slugs: one batch, and no pacing sleep)
NextUntagged ==
    \/ \E t \in Threads : Attempt(t) \/ UntaggedTask(t) \/ UntaggedCollect(t)
    \/ UntaggedImagesStep
    \/ SubmitBatch
    \/ JoinBatch

SpecUntagged == InitUntagged /\ [][NextUntagged]_vars

----------------------------------------------------------------------------
\* main on a catalog of up to MaxImages images

\* the catalog document: it may lack the `repositories` key
Catalog(hasRepositories, repositories) ==
    [hasRepositories |-> hasRepositories, repositories |-> repositories]

Catalogs ==
    {<<>>, <<Catalog(FALSE, <<>>)>>}
       \cup {<<Catalog(TRUE, l)>> : l \in SeqsUpTo({A, B}, MaxImages)}

\* tagged runs: the tags of the images and the manifest of v1 vary
TaggedStores ==
    {[manifests |-> (V1 :> m1)
                       @@ (V2 :> <<IndexDoc(<<Entry(TRUE, D2, TRUE, "arm64")>>)>>)
                       @@ ChildManifests,
      pkgs |-> CHOOSE pv \in PkgVariants : pv[<<"d2">>] = <<>>,
      deletable |-> {SlugOf(V2)},
      tags |-> (A :> ta) @@ (B :> tb), named |-> <<>>, catalog |-> c] :
        m1 \in {<<>>, <<IndexDoc(<<Entry(TRUE, D1, TRUE, "amd64")>>)>>,
                <<ImageDoc(<<D1>>, <<>>, <<>>)>>},
        ta \in {<<>>, <<<<V1>>>>, <<<<V2, V1>>>>},
        tb \in {<<<<V1>>>>, <<<<V2>>>>},
        c \in Catalogs}

\* untagged runs: the packages of the images and the manifest of u1 vary
UntaggedStores ==
    {[manifests |-> (PrefixSha(U1) :> m1) @@ (U2 :> <<>>) @@ ChildManifests,
      pkgs |-> CHOOSE pv \in PkgVariants : pv[<<"d2">>] = <<>>,
      deletable |-> {PU1.slug},
      tags |-> <<>>, named |-> (A :> na) @@ (B :> <<<<Listed(PU2, "empty")>>>>),
      catalog |-> c] :
        m1 \in {<<IndexDoc(<<Entry(TRUE, D1, TRUE, "amd64")>>)>>,
                <<IndexDoc(<<Entry(FALSE, <<>>, TRUE, "amd64")>>)>>},
        na \in {<<>>, <<<<Listed(PU1, "empty")>>>>, <<<<Listed(PU2, "null")>>>>,
                <<<<Listed(PU1, "empty"), Listed(PU2, "absent")>>>>},
        c \in Catalogs}

Outputs == {"table", "json", "csv"}

InitMain ==
    /\ menu = SteadyMenu
    /\ rq = [t \in Threads |-> IdleRequest]
    /\ tw = [t \in Threads |-> IdleWorker]
    /\ bd = IdleDelete
    /\ ia = IdleAnalysis
    /\ ui = IdleUntagged
    /\ \E img \in {<<>>, <<A>>}, detailed \in BOOLEAN, output \in Outputs :
          \/ /\ store \in TaggedStores
             /\ img # <<>> => store.catalog = <<>>
             /\ \E delete_all \in BOOLEAN, delete_tag \in {<<>>, <<V2>>} :
                   mn = NewMain(Args(img, FALSE, FALSE, delete_all, delete_tag,
                                     detailed, output))
          \/ /\ store \in UntaggedStores
             /\ img # <<>> => store.catalog = <<>>
             /\ \E untagged_delete \in BOOLEAN :
                   mn = NewMain(Args(img, ~untagged_delete, untagged_delete, FALSE, <<>>,
                                     detailed, output))

NextMain ==
    \/ Attempt(0)
    \/ \E k \in 1..MaxImages : StartImageTask(k) \/ ProcessImage(k) \/ MainCollect(k)
    \/ MainStep

SpecMain == InitMain /\ [][NextMain]_vars

----------------------------------------------------------------------------
\* get_digest_data on digests of up to MaxDigestLen tokens

Digests == SeqsUpTo({"sha256:", "ab", "cd"}, MaxDigestLen) \ {<<>>}

\* the package API knows the versions ab and ab cd
DigestPkgs ==
    [v \in {<<"ab">>, <<"ab", "cd">>} |-> << <<ChildPkg("Completed", 5, v)>> >>]

\* the digest is the child of a manifest list (its platform is known), or
\* the digest found in a single-platform manifest (its platform is unknown
\* and its manifest is requested first)
InitDigest ==
    /\ menu = SteadyMenu
    /\ \E d \in Digests :
          \E doc \in {IndexDoc(<<Entry(TRUE, d, TRUE, "amd64")>>), ImageDoc(<<d>>, <<>>, <<>>)} :
             store = [manifests |-> (V1 :> <<doc>>) @@ (DU :> <<doc>>),
                      pkgs |-> DigestPkgs, deletable |-> {}, tags |-> <<>>,
                      named |-> <<>>, catalog |-> <<>>]
    /\ rq = [t \in Threads |-> IdleRequest]
    /\ \E w \in AggTasks(TRUE) : tw = [t \in Threads |-> IF t = 1 THEN w ELSE IdleWorker]
    /\ bd = IdleDelete
    /\ ia = IdleAnalysis
    /\ ui = IdleUntagged
    /\ mn = IdleMain

SpecDigest == InitDigest /\ [][NextAgg]_vars

----------------------------------------------------------------------------
\* batch_delete_packages on lists of up to MaxDupSlugs slugs in which a slug
\* may occur more than once; a DELETE may be answered with a server error

DupSlugLists == SeqsUpTo({SlugN(1), SlugN(2)}, MaxDupSlugs) \ {<<>>}

InitDuplicates ==
    /\ menu = PlainMenu
    /\ \E slugs \in DupSlugLists :
          /\ store = [manifests |-> ChildManifests, pkgs |-> <<>>,
                      deletable |-> {SlugN(1), SlugN(2)}, tags |-> <<>>,
                      named |-> <<>>, catalog |-> <<>>]
          /\ bd = NewDelete(slugs)
    /\ rq = [t \in Threads |-> IdleRequest]
    /\ tw = [t \in Threads |-> IdleWorker]
    /\ ia = IdleAnalysis
    /\ ui = IdleUntagged
    /\ mn = IdleMain

\* (at most batch_size slugs: one batch, and no pacing sleep)
NextDuplicates == (\E t \in Threads : Attempt(t)) \/ SubmitBatch \/ JoinBatch

SpecDuplicates == InitDuplicates /\ [][NextDuplicates]_vars

----------------------------------------------------------------------------
\* The pools with more tasks than workers: main on a catalog of up to
\* MaxPoolImages images, which may be interrupted; the pool of
\* get_image_analysis on MaxTasks tags; batch_delete_packages on up to
\* MaxSlugs slugs

TagN(k) == <<"tag-", Numerals[k]>>

\* every image has the tag v1, which has no manifest
PoolStore(n) ==
    [manifests |-> <<>>, pkgs |-> <<>>, deletable |-> {},
     tags |-> (A :> << <<V1>> >>), named |-> <<>>,
     catalog |-> <<Catalog(TRUE, [k \in 1..n |-> A])>>]

InitManyImages ==
    /\ menu = SteadyMenu
    /\ \E n \in 1..MaxPoolImages : store = PoolStore(n)
    /\ rq = [t \in Threads |-> IdleRequest]
    /\ tw = [t \in Threads |-> IdleWorker]
    /\ bd = IdleDelete
    /\ ia = IdleAnalysis
    /\ ui = IdleUntagged
    /\ mn = NewMain(Args(<<>>, FALSE, FALSE, FALSE, <<>>, FALSE, "table"))

\* get_image_analysis has submitted the tasks of its MaxTasks tags (line 446)
InitManyTags ==
    /\ menu = SteadyMenu
    /\ store = PoolStore(0)
    /\ rq = [t \in Threads |-> IdleRequest]
    /\ tw = [t \in Threads |-> IF t = 0 THEN IdleWorker ELSE NewTagWorker(TagN(t), FALSE)]
    /\ bd = IdleDelete
    /\ ia = [NewAnalysis(FALSE, <<>>, FALSE) EXCEPT
                !.pc = "pool", !.tags = [t \in 1..MaxTasks |-> TagN(t)]]
    /\ ui = IdleUntagged
    /\ mn = IdleMain

\* get_untagged_images has submitted the tasks of its MaxTasks packages
\* (line 385)
InitManyUntagged ==
    /\ menu = SteadyMenu
    /\ store = PoolStore(0)
    /\ rq = [t \in Threads |-> IdleRequest]
    /\ tw = [t \in Threads |->
                IF t = 0 THEN IdleWorker
                ELSE NewUntaggedWorker(Pkg(SlugN(t), "Completed", 0, TagN(t),
                                           "manifest/list"), FALSE)]
    /\ bd = IdleDelete
    /\ ia = IdleAnalysis
    /\ ui = [NewUntagged(Img, FALSE, FALSE) EXCEPT
                !.pc = "pool", !.untagged_pkgs = [t \in 1..MaxTasks |-> tw[t].pkg]]
    /\ mn = IdleMain

InitPools == InitManyImages \/ InitManyTags \/ InitManyUntagged \/ InitDelete

NextPools ==
    \/ \E t \in Threads : Attempt(t) \/ TagStart(t) \/ TagAfterManifest(t)
    \/ \E t \in Threads : UntaggedStart(t) \/ UntaggedAfterManifest(t)
    \/ ImageJoin
    \/ DeleteStep
    \/ \E k \in 1..MaxPoolImages : StartImageTask(k) \/ ProcessImage(k) \/ MainCollect(k)
    \/ MainStep
    \/ InterruptStep

SpecPools == InitPools /\ [][NextPools]_vars

----------------------------------------------------------------------------
\* the three pools together: a run is one of get_image_analysis, of
\* get_untagged_images or of main

InitOrder == InitImage \/ InitUntagged \/ InitMain

NextOrder == NextImage \/ NextUntagged \/ NextMain

SpecOrder == InitOrder /\ [][NextOrder]_vars

----------------------------------------------------------------------------
\* Properties of make_request

All429(h) == \A i \in DOMAIN h : h[i].code = 429
Count429(h) == Cardinality({i \in DOMAIN h : h[i].code = 429})
Front(h) == SubSeq(h, 1, Len(h) - 1)
DocOf(url) == Content(url)[1]

\* k answers of 429 followed by a 200, for some k in 0..4
RetriedThenOk(q) ==
    /\ q.hist # <<>>
    /\ Len(q.hist) - 1 \in 0..4
    /\ q.hist[Len(q.hist)].code = 200
    /\ All429(Front(q.hist))

HardFailure(resp) == resp.code \in {404, 500, 0}

\* C3: an attempt that fails with 404, another non-429 HTTP error or a network
\* exception is the last attempt of the call: the call has returned null, and
\* the only sleeps performed are those of the 429 answers before it.
C3_FailureEndsCall ==
    \A t \in Threads :
        LET q == rq[t] IN
        \A i \in DOMAIN q.hist :
            HardFailure(q.hist[i])
               => /\ i = Len(q.hist)
                  /\ q.st = "ret"
                  /\ q.result = ResNone
                  /\ Len(q.sleeps) = Count429(q.hist)
                  /\ q.attempt = i - 1

\* a network exception on the fifth attempt, after four 429 answers
C3_Witness ==
    \E t \in Threads :
        /\ Len(rq[t].hist) = 5 /\ rq[t].hist[5].code = 0
        /\ rq[t].st = "ret" /\ Len(rq[t].sleeps) = 4

\* the calls that have returned from an attempt answered 200
ReturnedOk == {t \in Threads : rq[t].st = "ret" /\ rq[t].hist # <<>>
                                  /\ rq[t].hist[Len(rq[t].hist)].code = 200}

LastResponse(t) == rq[t].hist[Len(rq[t].hist)]

\* the sleeps of the call after those of its 429 answers
SleepsAfter429(t) == SubSeq(rq[t].sleeps, Count429(rq[t].hist) + 1, Len(rq[t].sleeps))

\* the response has a remaining-quota header below 3 and a reset-time header
QuotaLow(resp) ==
    /\ resp.remaining # <<>> /\ resp.remaining[1] < RemainingThreshold
    /\ resp.resetIn # <<>>

\* C19, amended: when a successful response has a remaining-quota header
\* below 3 and a reset-time header naming a time more than 0 and less than
\* 30 seconds ahead, make_request sleeps once, for the time to the reset plus
\* half a second, before it returns; when the reset is 30 seconds or more
\* ahead, or not ahead, or a header is missing, or remaining is 3 or more, it
\* does not sleep (the sleep is skipped, not capped).
C19_ProactiveSleepBelow30 ==
    \A t \in ReturnedOk :
        LET resp == LastResponse(t) IN
        IF QuotaLow(resp) /\ resp.resetIn[1] > 0 /\ resp.resetIn[1] < MaxProactiveWait
        THEN SleepsAfter429(t) = <<resp.resetIn[1] + HalfSecond>>
        ELSE SleepsAfter429(t) = <<>>

\* remaining 2 and a reset 10 seconds ahead: a sleep of 10.5 seconds, then
\* the parsed body
C19_Witness ==
    \E t \in ReturnedOk :
        /\ LastResponse(t) = Ok("json", <<2>>, <<100>>)
        /\ rq[t].sleeps = <<105>>
        /\ rq[t].result = ResJson(DocOf(rq[t].url))

\* C19 as stated: with remaining below 3 and a reset time in the future the
\* call sleeps until the reset (give or take the half second), at most 30
\* seconds; otherwise it does not sleep.
C19_Original ==
    \A t \in ReturnedOk :
        LET resp == LastResponse(t) IN
        IF QuotaLow(resp) /\ resp.resetIn[1] > 0
        THEN \/ /\ resp.resetIn[1] < MaxProactiveWait
                /\ SleepsAfter429(t) \in {<<resp.resetIn[1]>>, <<resp.resetIn[1] + HalfSecond>>}
             \/ /\ resp.resetIn[1] >= MaxProactiveWait
                /\ SleepsAfter429(t) \in {<<MaxProactiveWait>>, <<MaxProactiveWait + HalfSecond>>}
        ELSE SleepsAfter429(t) = <<>>

\* the wait the headers of a 429 name at the 0-based attempt a, in tenths
\* of a second: Retry-After, else the time to X-RateLimit-Reset, else 2^a
NamedWait(resp, a) ==
    IF resp.retryAfter # <<>> THEN resp.retryAfter[1]
    ELSE IF resp.resetIn # <<>> THEN resp.resetIn[1]
    ELSE Pow2(a) * 10

\* C20, amended: on a 429 at attempt index a the wait is the Retry-After
\* seconds when the header is present, else the time to the reset when that
\* header is present, else 2^a; a negative wait is replaced by 1 second; and
\* the sleep performed is the wait plus half a second.
C20_WaitOf429 ==
    \A t \in Threads :
        \A i \in DOMAIN rq[t].hist :
            rq[t].hist[i].code = 429 =>
                LET named == NamedWait(rq[t].hist[i], i - 1)
                    wait == IF named < 0 THEN NegativeWaitFallback ELSE named
                IN  /\ i \in DOMAIN rq[t].sleeps
                    /\ rq[t].sleeps[i] = wait + HalfSecond

\* five 429 answers without headers: sleeps of 1.5, 2.5, 4.5, 8.5 and 16.5
\* seconds; and a 429 whose reset time is one second in the past: 1.5 seconds
C20_Witness ==
    \E t \in Threads :
        /\ rq[t].st = "ret" /\ Len(rq[t].hist) = 5
        /\ \A i \in 1..4 : rq[t].hist[i] = TooMany(<<>>, <<>>)
        /\ rq[t].hist[5] = TooMany(<<>>, <<-10>>)
        /\ rq[t].sleeps = <<15, 25, 45, 85, 15>>

\* C20 as stated: the sleep is the named wait plus half a second.
C20_Original ==
    \A t \in Threads :
        \A i \in DOMAIN rq[t].hist :
            rq[t].hist[i].code = 429 =>
                /\ i \in DOMAIN rq[t].sleeps
                /\ rq[t].sleeps[i] = NamedWait(rq[t].hist[i], i - 1) + HalfSecond

\* C22 as stated: every sleep after a 429 is followed by another attempt,
\* so a call answered 429 on all 5 attempts has slept 4 times when it returns
\* null.
C22_Original ==
    \A t \in Threads :
        LET q == rq[t] IN
        /\ (q.st = "ret" /\ q.hist # <<>> /\ q.hist[Len(q.hist)].code = 429)
              => Count429(q.hist) - 1 = Len(q.sleeps)
        /\ (q.st = "ret" /\ Len(q.hist) = max_retries /\ All429(q.hist))
              => (Len(q.sleeps) = max_retries - 1 /\ q.result = ResNone)

----------------------------------------------------------------------------
\* Properties of the callers of make_request

NoDuplicates(s) == \A i, j \in DOMAIN s : s[i] = s[j] => i = j

RECURSIVE Flatten(_)
Flatten(ss) == IF ss = <<>> THEN <<>> ELSE Head(ss) \o Flatten(Tail(ss))

\* C2: a call of make_request makes at most 5 HTTP attempts and has returned
\* after the fifth; five answers of 429 make it return null; and a caller
\* calls make_request once per call site (and child), also after a null:
\* fetch_tag_data, fetch_untagged_data and get_digest_data never repeat a
\* call, and batch_delete_packages submits each position of its list once.
C2_BoundedAttemptsNoReissue ==
    /\ \A t \in Threads :
          /\ Len(rq[t].hist) <= 5
          /\ rq[t].st = "try" => Len(rq[t].hist) < 5
          /\ (Len(rq[t].hist) = 5 /\ All429(rq[t].hist))
                => (rq[t].st = "ret" /\ rq[t].result = ResNone)
          /\ NoDuplicates(tw[t].calls)
          /\ \A k \in DOMAIN tw[t].nulls :
                Cardinality({c \in DOMAIN tw[t].calls : tw[t].calls[c] = tw[t].nulls[k]}) = 1
    /\ Flatten(bd.batches) = SubSeq(bd.slugs, 1, Len(Flatten(bd.batches)))
    /\ bd.pc = "batch" =>
          \A t \in 1..Len(bd.batches[Len(bd.batches)]) :
              rq[t].st # "idle" /\ rq[t].url = DeleteUrl(bd.batches[Len(bd.batches)][t])

\* fetch_tag_data: the package lookup of child 1 returned null and was not
\* called again; the task went on to child 2, whose lookup has just returned
\* null after five answers of 429
C2_Witness ==
    \E t \in Threads :
        /\ tw[t].fn = "tag" /\ tw[t].pc = "child_pkg" /\ tw[t].i = 2
        /\ tw[t].nulls = << <<"child_pkg", 1>> >>
        /\ tw[t].calls = << <<"manifest", 0>>, <<"child_pkg", 1>>, <<"child_pkg", 2>> >>
        /\ Len(rq[t].hist) = 5 /\ All429(rq[t].hist)
        /\ rq[t].st = "ret" /\ rq[t].result = ResNone

----------------------------------------------------------------------------
\* Properties of the resolvers

\* the j-th smallest element of a set of indices
NthOf(S, j) == CHOOSE i \in S : Cardinality({k \in S : k < i}) = j - 1

\* the task has parsed a manifest-list response
HasIndex(w) == w.manifest_json # <<>> /\ w.manifest_json[1].shape = "index"

\* the entries whose architecture field is not the string "unknown" (an entry
\* without the field has the default "unknown")
NotUnknown(doc) ==
    {i \in DOMAIN doc.manifests :
        doc.manifests[i].hasArch /\ doc.manifests[i].arch # "unknown"}

\* the entries whose architecture, lower-cased, is not "unknown"
NotUnknownAnyCase(doc) ==
    {i \in DOMAIN doc.manifests :
        doc.manifests[i].hasArch /\ Lower(doc.manifests[i].arch) # "unknown"}

\* the entries with a non-empty digest
WithDigest(doc) ==
    {i \in DOMAIN doc.manifests :
        doc.manifests[i].hasDigest /\ doc.manifests[i].digest # <<>>}

\* children holds one (digest, os/architecture) per entry of kept, in order
OnePerEntry(children, doc, kept) ==
    /\ Len(children) = Cardinality(kept)
    /\ \A j \in DOMAIN children :
          LET m == doc.manifests[NthOf(kept, j)]
          IN  children[j] = [digest |-> m.digest, platform |-> <<m.os, "/", m.arch>>]

\* C5 as stated: for a manifest-list response of which M entries have an
\* architecture different from "unknown", the child list (children of
\* fetch_tag_data, child_digests of fetch_untagged_data) has exactly M
\* entries, one per such entry.
C5_Original ==
    \A t \in Threads :
        HasIndex(tw[t]) =>
            OnePerEntry(tw[t].children, tw[t].manifest_json[1],
                        NotUnknown(tw[t].manifest_json[1]))

\* C5 amended: the architecture is compared in lower case; fetch_tag_data
\* keeps one child per entry that has a non-empty digest and whose
\* architecture is not "unknown"; fetch_untagged_data keeps one child per
\* entry whose architecture is not "unknown", and raises when such an entry
\* has no digest key.
C5_ChildrenPerKnownEntry ==
    \A t \in Threads :
        LET w == tw[t] IN
        HasIndex(w) =>
            LET doc == w.manifest_json[1]
                known == NotUnknownAnyCase(doc)
            IN  /\ w.fn = "tag" => OnePerEntry(w.children, doc, known \cap WithDigest(doc))
                /\ w.fn = "untagged" =>
                      IF \E i \in known : ~doc.manifests[i].hasDigest
                      THEN w.pc = "raised" /\ w.children = <<>>
                      ELSE w.pc # "raised" /\ OnePerEntry(w.children, doc, known)

\* a manifest list of the entries Unknown and arm64: fetch_tag_data has one
\* child, the arm64 entry
C5_Witness ==
    \E t \in Threads :
        /\ tw[t].fn = "tag" /\ HasIndex(tw[t])
        /\ tw[t].manifest_json[1].manifests =
              <<Entry(TRUE, D1, TRUE, "Unknown"), Entry(TRUE, D2, TRUE, "arm64")>>
        /\ tw[t].children = <<Child(D2, <<"linux", "/", "arm64">>)>>

\* the download count the package API holds for a child: that of the first
\* package of the answer, 0 when the answer is empty
StoredDownloads(digest) ==
    LET answer == Content(PackagesUrl(SelectSeq(digest, LAMBDA tok : tok # "sha256:")))
    IN  IF answer = <<>> \/ answer[1] = <<>> THEN 0 ELSE answer[1][1].downloads

\* the download count fetch_tag_data's task w looked up for its child i: 0
\* when the lookup returned null
LookedUp(w, i) ==
    IF \E k \in DOMAIN w.nulls : w.nulls[k] = <<"child_pkg", i>> THEN 0
    ELSE StoredDownloads(w.children[i].digest)

\* the downloads of the child rows a group holds
ChildDownloads(rows) == [k \in 1..(Len(rows) - 1) |-> rows[k + 1].downloads]

\* C6: the parent row of a group fetch_tag_data returns carries the sum of
\* the download counts looked up for all the children of the tag, detailed or
\* not; in detailed mode the group holds one child row per child, and the
\* child rows' downloads sum to the parent's.
C6_ParentSumsChildren ==
    \A t \in Threads :
        LET w == tw[t] IN
        (w.fn = "tag" /\ w.pc = "done" /\ w.rows # <<>>) =>
            /\ w.rows[1].downloads = SumSeq([i \in DOMAIN w.children |-> LookedUp(w, i)])
            /\ IF w.detailed
               THEN /\ Len(w.rows) = Len(w.children) + 1
                    /\ \A i \in DOMAIN w.children : w.rows[i + 1].downloads = LookedUp(w, i)
                    /\ SumSeq(ChildDownloads(w.rows)) = w.rows[1].downloads
               ELSE Len(w.rows) = 1

\* children with 5 and 3 downloads: a parent of 8 and two child rows
C6_Witness ==
    \E t \in Threads :
        /\ tw[t].fn = "tag" /\ tw[t].pc = "done" /\ tw[t].detailed
        /\ Len(tw[t].rows) = 3
        /\ tw[t].rows[1].downloads = 8 /\ ~tw[t].rows[1].is_child
        /\ tw[t].rows[2].downloads = 5 /\ tw[t].rows[3].downloads = 3

----------------------------------------------------------------------------
\* Properties of batch_delete_packages

\* the DELETE requests in flight, or answered and not yet collected
DeleteRequests == {t \in Threads : rq[t].st # "idle" /\ rq[t].method = "DELETE"}

\* ceil(n / batch_size)
CeilBatches(n) == (n + batch_size - 1) \div batch_size

\* C7: for a list of n >= 1 slugs, batch_delete_packages has issued, when it
\* returns, ceil(n/10) batches, each of 10 slugs except the last, which holds
\* the rest; it has slept 1.1 s ceil(n/10)-1 times, and not after the last
\* batch; the batches, one after the other, are the list itself, so every
\* slug was sent in exactly one batch, and every slug has its result.
C7_BatchesAndSleeps ==
    (bd.pc = "done" /\ bd.slugs # <<>>) =>
        LET n == Len(bd.slugs)
            nb == CeilBatches(n)
        IN  /\ Len(bd.batches) = nb
            /\ \A b \in 1..(nb - 1) : Len(bd.batches[b]) = 10
            /\ Len(bd.batches[nb]) = n - 10 * (nb - 1)
            /\ Len(bd.batches[nb]) \in 1..10
            /\ bd.naps = [k \in 1..(nb - 1) |-> 11]
            /\ Flatten(bd.batches) = bd.slugs
            /\ NoDuplicates(Flatten(bd.batches))
            /\ bd.deleted \cup bd.failed = Range(bd.slugs)
            /\ bd.deleted \cap bd.failed = {}

\* 23 slugs: batches of 10, 10 and 3, and 2 sleeps
C7_Witness ==
    /\ bd.pc = "done" /\ Len(bd.slugs) = 23
    /\ [b \in DOMAIN bd.batches |-> Len(bd.batches[b])] = <<10, 10, 3>>
    /\ Len(bd.naps) = 2

\* the slugs of the batches before the one in progress
EarlierSlugs ==
    Range(Flatten(IF bd.pc = "batch" THEN SubSeq(bd.batches, 1, Len(bd.batches) - 1)
                  ELSE bd.batches))

\* C8: a DELETE is in flight (or answered and not yet collected) only while
\* its batch is the one in progress; at that time every DELETE of the earlier
\* batches has completed, with the server's answer recorded, and one pacing
\* sleep has elapsed after each earlier batch.
C8_BatchesInSequence ==
    /\ \A t \in DeleteRequests :
          /\ bd.pc = "batch"
          /\ t \in 1..Len(bd.batches[Len(bd.batches)])
          /\ rq[t].url = DeleteUrl(bd.batches[Len(bd.batches)][t])
    /\ bd.pc = "submit" => Len(bd.naps) = Len(bd.batches)
    /\ bd.pc = "batch" => Len(bd.naps) = Len(bd.batches) - 1
    /\ bd.deleted \cup bd.failed = EarlierSlugs
    /\ bd.deleted = EarlierSlugs \cap store.deletable

\* the second batch in progress: its ten DELETEs are all in flight at once,
\* the first batch's ten are recorded and one sleep has elapsed
C8_Witness ==
    /\ bd.pc = "batch" /\ Len(bd.batches) = 2
    /\ \A t \in 1..batch_size : rq[t].st = "try" /\ rq[t].method = "DELETE"
    /\ Cardinality(bd.deleted \cup bd.failed) = batch_size
    /\ Len(bd.naps) = 1

\* C24 as stated: when batch_delete_packages returns, every input slug,
\* also one that occurs more than once in the list, is in exactly one of
\* deleted and failed.
C24_Original ==
    bd.pc = "done" =>
        /\ bd.deleted \cup bd.failed = Range(bd.slugs)
        /\ bd.deleted \cap bd.failed = {}

\* for a list without repeated slugs the two sets are disjoint and cover it
DistinctSlugsPartition ==
    (bd.pc = "done" /\ NoDuplicates(bd.slugs)) =>
        /\ bd.deleted \cup bd.failed = Range(bd.slugs)
        /\ bd.deleted \cap bd.failed = {}

----------------------------------------------------------------------------
\* Properties of get_image_analysis

\* get_image_analysis has built its groups (and its list of slugs to delete)
Joined == ia.pc = "delete" \/ (ia.pc = "done" /\ ia.returned = "groups")

\* get_image_analysis has returned its list of groups
ReturnedGroups == ia.pc = "done" /\ ia.returned = "groups"

\* the tags whose fetch_tag_data returned at least one row
TagsWithRows == {k \in 1..Len(ia.tags) : tw[k].pc = "done" /\ tw[k].rows # <<>>}

\* the parent rows of the tagged groups
Parents == {tw[k].rows[1] : k \in TagsWithRows}

\* C4 as stated: every group of the list get_image_analysis returns is
\* non-empty and starts with a parent row, and the list has one group per tag
\* whose fetch_tag_data found a manifest with at least one child.
C4_Original ==
    ReturnedGroups =>
        /\ \A g \in DOMAIN ia.groups :
              /\ ia.groups[g] # <<>>
              /\ ia.groups[g][1].kind = "row"
              /\ ~ia.groups[g][1].is_child
        /\ Len(ia.groups) = Cardinality(TagsWithRows)

\* C9 as stated: the slugs sent for deletion are the slug of every tagged
\* group (delete-all), or of the groups of the given tag (delete-by-tag
\* without delete-all), or none; every group counts, with the slug its parent
\* row carries.
C9_Original ==
    Joined => Range(ia.packages_to_delete) = {p.slug[1] : p \in
                  {q \in Parents : \/ ia.delete_all
                                   \/ ia.delete_tag # <<>> /\ q.tag = ia.delete_tag[1]}}

\* C9 amended: the slugs sent for deletion are the non-empty slugs of the
\* tagged groups the policy selects: every group with delete-all, the groups
\* of the given tag with delete-by-tag and without delete-all, none with
\* neither option.  A group whose package lookup found nothing carries the
\* empty slug and is not sent.  Every DELETE request is for one of these
\* slugs, and with neither option batch_delete_packages is not called.
C9_DeletionTargets ==
    /\ Joined =>
          Range(ia.packages_to_delete) =
              {p.slug[1] : p \in {q \in Parents :
                                     /\ q.slug[1] # <<>>
                                     /\ \/ ia.delete_all
                                        \/ ia.delete_tag # <<>> /\ q.tag = ia.delete_tag[1]}}
    /\ \A t \in DeleteRequests : Joined /\ rq[t].url.key \in Range(ia.packages_to_delete)
    /\ (~ia.delete_all /\ ia.delete_tag = <<>>) => (bd = IdleDelete /\ DeleteRequests = {})
    /\ (ReturnedGroups /\ ia.packages_to_delete # <<>>)
          => bd.deleted \cup bd.failed = Range(ia.packages_to_delete)

\* delete-by-tag v1 on an image with the groups v1 and v2: only v1's package
\* was sent, and deleted
C9_Witness ==
    /\ ReturnedGroups /\ ~ia.delete_all /\ ia.delete_tag = <<V1>>
    /\ Len(ia.groups) = 2 /\ \A k \in 1..2 : tw[k].rows # <<>> /\ tw[k].rows[1].slug[1] # <<>>
    /\ ia.packages_to_delete = <<SlugOf(V1)>>
    /\ bd.deleted = {SlugOf(V1)}

\* C10 as stated: every DELETE request is for the package of a tag whose
\* manifest is a manifest list (it has a `manifests` array).
C10_Original ==
    \A t \in DeleteRequests :
        \E k \in TagsWithRows :
            /\ tw[k].rows[1].slug = <<rq[t].url.key>>
            /\ tw[k].manifest_json # <<>>
            /\ tw[k].manifest_json[1].shape = "index"

----------------------------------------------------------------------------
\* Properties of get_untagged_images

\* the packages the name query answers with
NameQueryAnswer ==
    IF Img \in DOMAIN store.named /\ store.named[Img] # <<>> THEN store.named[Img][1]
    ELSE <<>>

\* the packages of the name query whose type is manifest/list and which have
\* no version tag
UntaggedManifestLists ==
    {NameQueryAnswer[i].pkg : i \in
        {j \in DOMAIN NameQueryAnswer :
            /\ NameQueryAnswer[j].pkg.type_display = "manifest/list"
            /\ NameQueryAnswer[j].tags \in {"absent", "empty"}}}

\* the digest a package's version names
DigestOfVersion(version) ==
    IF version # <<>> /\ version[1] # "sha256:" THEN <<"sha256:">> \o version ELSE version

\* row is the parent row of the package pkg
ParentRowOf(row, pkg) ==
    /\ row.kind = "row" /\ ~row.is_child
    /\ row.tag = <<"(untagged)">> /\ row.type = "manifest/list"
    /\ row.digest = DigestOfVersion(pkg.version)
    /\ row.status = <<pkg.status_str>>
    /\ row.downloads = pkg.downloads

\* C11: in untagged mode every group reported is the group of a package of
\* the name query that is a manifest list and has no version tag, and every
\* slug sent for deletion is the slug of such a package; DELETE requests are
\* issued, and batch_delete_packages is called, only when delete is enabled.
C11_OnlyUntaggedManifestLists ==
    /\ ui.returned = "groups" =>
          \A g \in DOMAIN ui.groups :
              /\ ui.groups[g] # <<>>
              /\ \E pkg \in UntaggedManifestLists : ParentRowOf(ui.groups[g][1], pkg)
    /\ \A t \in DeleteRequests :
          /\ ui.delete
          /\ \E pkg \in UntaggedManifestLists : rq[t].url = DeleteUrl(pkg.slug)
    /\ bd # IdleDelete =>
          /\ ui.delete
          /\ Range(bd.slugs) \subseteq {pkg.slug : pkg \in UntaggedManifestLists}
    /\ ~ui.delete => (bd = IdleDelete /\ DeleteRequests = {})

\* a name query answering an image package and an untagged manifest list,
\* with delete: one group, and only the manifest list's slug was deleted
C11_Witness ==
    /\ NameQueryAnswer = <<Listed(PImage, "empty"), Listed(PU1, "empty")>>
    /\ ui.delete /\ ui.returned = "groups" /\ Len(ui.groups) = 1
    /\ bd.pc = "done" /\ bd.slugs = <<PU1.slug>> /\ bd.deleted = {PU1.slug}

----------------------------------------------------------------------------
\* Properties of the order of the output

\* the groups that have a parent row
NonEmptyGroups(groups) == SelectSeq(groups, LAMBDA g : g # <<>>)

\* the untagged packages whose task returned, by increasing index
ReturnedPkgs ==
    SelectSeq([i \in DOMAIN ui.untagged_pkgs |-> i], LAMBDA i : tw[i].pc = "done")

\* C12: whatever the order in which the workers complete, the tagged groups
\* of an image are in strictly increasing order of their tag, the untagged
\* groups are in the order of the index of their package, and the images main
\* prints are in the order of their names.
C12_OutputOrder ==
    /\ ia.returned = "groups" =>
          LET ne == NonEmptyGroups(ia.groups)
          IN  \A i, j \in DOMAIN ne :
                 i < j => TagRank(ne[i][1].tag) < TagRank(ne[j][1].tag)
    /\ ui.returned = "groups" =>
          /\ Len(ui.groups) = Len(ReturnedPkgs)
          /\ \A g \in DOMAIN ui.groups :
                /\ ui.groups[g] # <<>>
                /\ ParentRowOf(ui.groups[g][1], ui.untagged_pkgs[ReturnedPkgs[g]])
    /\ mn.pc \in {"done", "raised"} =>
          /\ \A i, j \in DOMAIN mn.collected_results :
                i < j => ImgRank(mn.collected_results[i].img)
                            <= ImgRank(mn.collected_results[j].img)
          /\ mn.out.kind = "tables" =>
                /\ Len(mn.out.tables) = Len(mn.collected_results)
                /\ \A i \in DOMAIN mn.out.tables :
                      mn.out.tables[i].image = mn.collected_results[i].img

\* the task of the second package completed before the task of the first,
\* and the group of the first package is still the first group
C12_Witness ==
    /\ ui.returned = "groups"
    /\ ui.untagged_pkgs = <<PU1, PU2>>
    /\ ui.packages_to_delete = <<PU2.slug, PU1.slug>>
    /\ Len(ui.groups) = 2
    /\ ParentRowOf(ui.groups[1][1], PU1) /\ ParentRowOf(ui.groups[2][1], PU2)

----------------------------------------------------------------------------
\* Properties of the pools' exception handlers

\* the tag tasks, package tasks and image tasks that have raised and whose
\* exception the pool's loop has handled
RaisedTags ==
    {t \in DOMAIN ia.tags : ia.pc \in {"delete", "done"} /\ tw[t].pc = "raised"}
RaisedPkgs == {t \in ui.collected : tw[t].pc = "raised"}
RaisedImages == {k \in mn.collected : mn.finished[k].kind = "raised"}

\* C13 as stated: the exception of a task that raised is caught and reported,
\* and the results of its siblings are in the output.
C13_Original ==
    /\ \A t \in RaisedTags : ia.tags[t] \in Range(ia.errors)
    /\ \A t \in RaisedPkgs : tw[t].pkg \in Range(ui.errors)
    /\ \A k \in RaisedImages : mn.images_to_scan[k] \in Range(mn.errors)
    /\ ia.returned = "groups" =>
          Len(ia.groups) = Cardinality(DOMAIN ia.tags \ RaisedTags)
    /\ ui.returned = "groups" =>
          Len(ui.groups) = Cardinality(DOMAIN ui.untagged_pkgs \ RaisedPkgs)

----------------------------------------------------------------------------
\* Properties of main's output formats

\* the data rows of the tables, as (image, tag, type, platform, status,
\* downloads, digest)
TableRows(tables) ==
    UNION {{<<tables[i].image, tables[i].rows[r].tag, tables[i].rows[r].type,
              tables[i].rows[r].platform, tables[i].rows[r].status,
              tables[i].rows[r].downloads, tables[i].rows[r].digest>> :
               r \in {q \in DOMAIN tables[i].rows : tables[i].rows[q].cell = "row"}} :
           i \in DOMAIN tables}

\* the same of the rows of the JSON document
JsonRows(json) ==
    UNION {UNION {{<<img, json[img][g][r].tag, json[img][g][r].type,
                     json[img][g][r].platform, json[img][g][r].status,
                     json[img][g][r].downloads, json[img][g][r].digest>> :
                      r \in {q \in DOMAIN json[img][g] : json[img][g][q].kind = "row"}} :
                  g \in DOMAIN json[img]} :
           img \in DOMAIN json}

\* the same of the lines of the CSV document after its header
CsvRows(csv) ==
    {<<csv[i][1], csv[i][2], csv[i][3], csv[i][4], csv[i][5], csv[i][6], csv[i][7]>> :
        i \in DOMAIN csv \ {1}}

\* the rows the table output renders for the results main has collected
RenderedRows == TableRows(Tables(mn.collected_results, mn.args))

\* the JSON output holds every row the table output renders
JsonHoldsRenderedRows ==
    (mn.pc = "done" /\ mn.out.kind = "json") => RenderedRows \subseteq JsonRows(mn.out.json)

\* C14 as stated: the JSON output and the CSV output each hold every row of
\* every group the table output renders for the same results.
C14_Original ==
    (mn.pc \in {"done", "raised"} /\ mn.collected_results # <<>>) =>
        /\ mn.args.output = "json" =>
              /\ mn.out.kind = "json"
              /\ RenderedRows \subseteq JsonRows(mn.out.json)
        /\ mn.args.output = "csv" =>
              /\ mn.out.kind = "csv"
              /\ RenderedRows \subseteq CsvRows(mn.out.csv)

----------------------------------------------------------------------------
\* Properties of main's empty result

\* no task of main's pool has returned a group with a row
NoResultRow ==
    \A k \in DOMAIN mn.finished :
        \A g \in DOMAIN mn.finished[k].groups : mn.finished[k].groups[g] = <<>>

\* C15 as stated: a run without any result row prints the "nothing found"
\* message (table) or the empty JSON array (json) and never an empty table;
\* a run with a group renders it.
C15_Original ==
    mn.pc = "done" =>
        /\ (NoResultRow /\ mn.args.output = "table") => mn.out.kind = "nothing_found"
        /\ (NoResultRow /\ mn.args.output = "json") => mn.out.kind = "empty_json"
        /\ \A i \in DOMAIN mn.out.tables : mn.out.tables[i].rows # <<>>
        /\ (~NoResultRow /\ mn.args.output = "table") => mn.out.kind = "tables"
        /\ (~NoResultRow /\ mn.args.output = "json") => mn.out.kind = "json"

----------------------------------------------------------------------------
\* Properties of fetch_untagged_data

\* the untagged-package tasks that have built their parent row from a
\* manifest list
SummarisedLists ==
    {t \in Threads : /\ tw[t].fn = "untagged" /\ tw[t].rows # <<>>
                     /\ tw[t].manifest_json # <<>>
                     /\ tw[t].manifest_json[1].shape = "index"}

\* the os/architecture strings of all the entries of a manifest list
PlatsOf(doc) == {EntryPlat(doc.manifests[i]) : i \in DOMAIN doc.manifests}

\* C16: the platform of an untagged package's parent row is the sorted,
\* space-joined, de-duplicated set of the os/architecture strings of all the
\* entries of its manifest list, those of unknown architecture included, and
\* never the literal "multi".
C16_UntaggedPlatformSummary ==
    \A t \in SummarisedLists :
        LET plats == PlatsOf(tw[t].manifest_json[1])
            platform == tw[t].rows[1].platform
        IN  /\ \E o \in Orders(plats) :
                  /\ \A i, j \in DOMAIN o : i < j => PlatRank(o[i]) < PlatRank(o[j])
                  /\ platform = Join(o)
            /\ platform # <<"multi">>

\* a list of an unknown-architecture entry followed by an amd64 entry is
\* summarised as "linux/amd64 linux/unknown"
C16_Witness ==
    \E t \in SummarisedLists :
        /\ tw[t].pc = "done"
        /\ tw[t].manifest_json[1].manifests
              = <<Entry(TRUE, D2, TRUE, "unknown"), Entry(TRUE, D1, TRUE, "amd64")>>
        /\ tw[t].rows[1].platform
              = <<"linux", "/", "amd64", " ", "linux", "/", "unknown">>

\* C17 as stated: every untagged package get_untagged_images has selected
\* yields a group with at least a parent row taken from the package record.
C17_Original ==
    ui.returned = "groups" =>
        /\ Len(ui.groups) = Len(ui.untagged_pkgs)
        /\ \A i \in DOMAIN ui.untagged_pkgs :
              /\ ui.groups[i] # <<>>
              /\ ParentRowOf(ui.groups[i][1], ui.untagged_pkgs[i])

\* a package whose manifest request returned None keeps its parent row
NullManifestKeepsParent ==
    \A t \in DOMAIN ui.untagged_pkgs :
        (tw[t].pc \in {"done", "raised"} /\ tw[t].manifest_json = <<>>) =>
            /\ tw[t].pc = "done"
            /\ ParentRowOf(tw[t].rows[1], ui.untagged_pkgs[t])
            /\ tw[t].rows[1].slug = <<ui.untagged_pkgs[t].slug>>
            /\ tw[t].rows[1].platform = Unknown

----------------------------------------------------------------------------
\* Properties of get_digest_data

\* the tasks that have issued the package lookup of a child digest
ChildLookups == {t \in Threads : tw[t].pc = "child_pkg"}

\* the digest a task is looking up
LookupDigest(t) == tw[t].children[tw[t].i].digest

NoSha(s) == \A i \in DOMAIN s : s[i] # "sha256:"

\* v is d without some of its "sha256:" tokens
WithoutShas(v, d) ==
    \E f \in [DOMAIN v -> DOMAIN d] :
        /\ \A i, j \in DOMAIN v : i < j => f[i] < f[j]
        /\ \A i \in DOMAIN v : d[f[i]] = v[i]
        /\ \A k \in DOMAIN d : (\A i \in DOMAIN v : f[i] # k) => d[k] = "sha256:"

----------------------------------------------------------------------------
\* Properties of the action column

\* the slugs a DELETE was issued for, and those whose DELETE succeeded (the
\* server is steady: a DELETE succeeds exactly for a deletable slug)
IssuedDeletes == IF bd.pc = "done" THEN Range(Flatten(bd.batches)) ELSE {}
SucceededDeletes == IssuedDeletes \cap store.deletable

\* row.get('action', '')
ActionText(row) == IF row.action = <<>> THEN "" ELSE row.action[1]

\* the rows of a group carry only actions the DELETE of slug justifies
ActionsJustified(group, slug) ==
    \A r \in DOMAIN group :
        group[r].kind = "row" =>
            /\ ActionText(group[r]) \in {"", "Deleted", "Failed"}
            /\ ActionText(group[r]) = "Deleted" => slug \in SucceededDeletes
            /\ ActionText(group[r]) = "Failed" => slug \in IssuedDeletes \ SucceededDeletes

NoAction(group) ==
    \A r \in DOMAIN group : group[r].kind = "row" => ActionText(group[r]) = ""

\* C25: in the final groups of both modes a row has the action "Deleted"
\* only if a DELETE for the slug of its group's parent succeeded, "Failed"
\* only if a DELETE for that slug was issued and did not succeed, and no
\* action otherwise; without a delete option no row has an action.
C25_ActionsFollowDeletes ==
    /\ ia.returned = "groups" =>
          \A g \in DOMAIN ia.groups :
              /\ ia.groups[g] # <<>> =>
                    ActionsJustified(ia.groups[g],
                                     IF ia.groups[g][1].slug = <<>> THEN <<>>
                                     ELSE ia.groups[g][1].slug[1])
              /\ (~ia.delete_all /\ ia.delete_tag = <<>>) => NoAction(ia.groups[g])
    /\ ui.returned = "groups" =>
          \A g \in DOMAIN ui.groups :
              /\ ActionsJustified(ui.groups[g], ui.untagged_pkgs[ReturnedPkgs[g]].slug)
              /\ ~ui.delete => NoAction(ui.groups[g])

\* delete_all on two tags, the DELETE of the first refused: its group says
\* "Failed", the group of the second "Deleted"
C25_Witness ==
    /\ ia.returned = "groups" /\ ia.delete_all /\ Len(ia.groups) = 2
    /\ ia.groups[1] # <<>> /\ ia.groups[2] # <<>>
    /\ ActionText(ia.groups[1][1]) = "Failed"
    /\ ActionText(ia.groups[2][1]) = "Deleted"
    /\ SlugOf(V1) \notin store.deletable

----------------------------------------------------------------------------
\* Properties of the order of fetches and deletions

\* the aggregator tasks that have started and not ended
RunningTasks == {t \in Threads : tw[t].pc \notin {"idle", "done", "raised"}}

\* the requests of manifests, package metadata, tags and names in progress
RunningFetches == {t \in Threads : rq[t].st # "idle" /\ rq[t].method # "DELETE"}

\* C26: within the processing of an image, batch_delete_packages is called
\* and a DELETE request is issued only after every aggregator task of the
\* image has ended, all its manifest and package fetches with it; the rows
\* were complete before the first deletion.
C26_DeletesAfterAggregation ==
    (bd # IdleDelete \/ DeleteRequests # {}) =>
        /\ RunningTasks = {} /\ RunningFetches = {}
        /\ ia.pc \in {"delete", "done"} \/ ui.pc \in {"delete", "done"}
        /\ ia.pc \in {"delete", "done"} =>
              \A t \in DOMAIN ia.tags : tw[t].pc \in {"done", "raised"}
        /\ ui.pc \in {"delete", "done"} =>
              \A t \in DOMAIN ui.untagged_pkgs : tw[t].pc \in {"done", "raised"}

\* two tags with children: both tasks have ended, with their rows, while the
\* two DELETE requests are in flight
C26_Witness ==
    /\ ia.pc = "delete" /\ bd.pc = "batch" /\ Len(ia.tags) = 2
    /\ tw[1].pc = "done" /\ tw[2].pc = "done"
    /\ Len(tw[1].rows) > 1 /\ Len(tw[2].rows) > 1
    /\ rq[1].st = "try" /\ rq[1].method = "DELETE"
    /\ rq[2].st = "try" /\ rq[2].method = "DELETE"

----------------------------------------------------------------------------
\* Properties of the pools

ImagesInFlight == {k \in DOMAIN mn.finished : mn.finished[k] = InFlight}
ImagesQueued == {k \in DOMAIN mn.finished : mn.finished[k] = Pending}
TasksRunning == {t \in Threads : Running(tw[t])}
TasksQueued == {t \in Threads : Queued(tw[t])}

\* C21: once the interrupt has been handled in main, every image task that
\* had not started is cancelled and stays unstarted, and main is in the
\* interrupt handler (or the process has exited) whatever the state of the
\* tasks in flight.
C21_InterruptCancelsQueued ==
    mn.pc \in {"handler", "exited"} =>
        /\ ImagesQueued = mn.cancelled
        /\ \A k \in mn.cancelled : k \notin mn.collected

\* main is in the interrupt handler while five image tasks are in flight and
\* the sixth is cancelled
C21_Witness ==
    /\ mn.pc = "handler"
    /\ Cardinality(ImagesInFlight) = image_workers
    /\ mn.cancelled = {image_workers + 1}

\* C23: at most 5 image tasks are running, at most 10 aggregator tasks of an
\* image are running, and at most 10 DELETE requests of a call of
\* batch_delete_packages are in flight.
C23_PoolSizes ==
    /\ Cardinality(ImagesInFlight) <= image_workers
    /\ Cardinality(TasksRunning) <= aggregator_workers
    /\ Cardinality(DeleteRequests) <= batch_size

\* ten tag tasks are running and the eleventh waits in the queue
C23_Witness ==
    /\ ia.pc = "pool"
    /\ Cardinality(TasksRunning) = aggregator_workers
    /\ TasksQueued # {}

====
